---- MODULE Spec2Model ----
(***************************************************************************)
(* Model of the session-driven command dispatcher of truepositive-assistant *)
(* (src/bot.rs, src/states.rs, src/commands.rs, src/models.rs).             *)
(*                                                                          *)
(* One dispatch cycle of Bot::dispatch_update is split at its first await:  *)
(* a Dispatch* action reads the session record and normalises the update,   *)
(* DispatchFinish runs the state handler against the collaborators (their   *)
(* answers are inputs), applies UserState::execute and writes the store.    *)
(***************************************************************************)
EXTENDS Integers, Sequences, FiniteSets, TLC

(* ------------------------------ bounds --------------------------------- *)
\* number of issues the tracker's backlog holds: pages at skip >= BacklogLen are empty
BacklogLen == 6
\* messages with an inline keyboard kept per user
MaxMsgs == 1
\* uuids main.rs mints before the model stops building keyboards
MaxUuid == 6
\* capacity of the LRU cache of main.rs (LruCache::new(100)), scaled down
CacheCap == 3
\* entries the CSRF table can take before the model stops issuing logins
MaxCsrf == 2
\* uuids the threads that share CACHES mint (one more than the cache holds)
MaxTokens == 4
\* length of the longest issue id handed to the encoder
MaxIdLen == 38
\* decodes of the same callback data that are counted
MaxDecodes == 2

(* --------------------------- program constants ------------------------- *)
\* "/backlog" => BotCommand::Backlog(msg, BacklogParams::new(5))
DefaultTop == 5
\* main.rs list_backlog: BacklogParams::new(10)
MainTop == 10
\* the largest i32 (`pub top: i32`, `pub skip: i32`)
I32Max == 2147483647
\* `if val.len() > 64`: the bytes of callback data a button may carry
MaxCallbackData == 64

Users == {"u1", "u2"}
\* the users whose updates the specification dispatches; the other user's record
\* is there to be left alone
Senders == {"u1"}
\* free texts a user types; "t1" names a project and a stream, "t2" an issue type
Texts == {"t1", "t2"}
Keywords == {"/backlog", "/start", "/login", "/stop", "/new_issue", "/save", "/cancel"}

(* what the issue tracker holds (collaborator data) *)
TrackerProjects == {[id |-> "p1", name |-> "t1"]}
StreamValues == {"t1"}
TypeValues == {"t2"}
IssueSets == {{}, {[id |-> "I1", has_vote |-> FALSE]}}

(* ------------------------- commands.rs: BacklogParams ------------------ *)
\* top and skip are i32; the arithmetic below never leaves that range while it is
\* evaluated
I32Min == -I32Max - 1

\* a + b does not fit in an i32
add_overflows(a, b) == (b > 0 /\ a > I32Max - b) \/ (b < 0 /\ a < I32Min - b)

\* a + b modulo 2^32 in two's complement: what `a + b` gives in a build without
\* overflow checks
wrapping_add(a, b) ==
  IF b > 0 /\ a > I32Max - b THEN (a - I32Max) + (b - I32Max) - 2
  ELSE IF b < 0 /\ a < I32Min - b THEN (a - I32Min) + (b - I32Min)
  ELSE a + b

\* a - b does not fit in an i32
sub_overflows(a, b) == (b < 0 /\ a > I32Max + b) \/ (b > 0 /\ a < I32Min + b)

\* a - b modulo 2^32 in two's complement
wrapping_sub(a, b) ==
  IF b < 0 /\ a > I32Max + b THEN (a - I32Max) - (b - I32Min) - 1
  ELSE IF b > 0 /\ a < I32Min + b THEN (a - I32Min) - (b - I32Max) + 1
  ELSE a - b

BacklogParams_new(top) == [top |-> top, skip |-> 0]

BacklogParams_new_with_skip(top, skip) == [top |-> top, skip |-> skip]

\* the value next() returns when it returns
BacklogParams_next(p) == [top |-> p.top, skip |-> wrapping_add(p.skip, p.top)]

\* next() panics ("attempt to add with overflow") in a build with overflow checks
BacklogParams_next_overflows(p) == add_overflows(p.skip, p.top)

\* prev() that gives the page before whatever the offset is
BacklogParams_prev_unguarded(p) == {[top |-> p.top, skip |-> wrapping_sub(p.skip, p.top)]}

\* Option<BacklogParams> as a set: {} is None, {q} is Some(q)
BacklogParams_prev(p) ==
  IF wrapping_sub(p.skip, p.top) >= 0
    THEN {[top |-> p.top, skip |-> wrapping_sub(p.skip, p.top)]}
    ELSE {}

\* prev() panics ("attempt to subtract with overflow") in a build with overflow
\* checks
BacklogParams_prev_overflows(p) == sub_overflows(p.skip, p.top)

\* the outcome of a call: it panicked, or it returned the values in value
Panicked == [panic |-> TRUE, value |-> {}]

Returned(value) == [panic |-> FALSE, value |-> value]

\* params.next() and params.prev() in a build with (checks) or without overflow
\* checks; value holds the BacklogParams, or the Option as a set
next_call(p, checks) ==
  IF checks /\ BacklogParams_next_overflows(p) THEN Panicked
  ELSE Returned({BacklogParams_next(p)})

prev_call(p, checks) ==
  IF checks /\ BacklogParams_prev_overflows(p) THEN Panicked
  ELSE Returned(BacklogParams_prev(p))

\* params.next().prev()
next_prev_call(p, checks) ==
  LET n == next_call(p, checks)
  IN IF n.panic THEN Panicked ELSE prev_call(CHOOSE q \in n.value : TRUE, checks)

\* no call has been made
NoCall == [fn |-> "none", result |-> Returned({})]

(* ------------------------- states.rs: UserState ------------------------ *)
Idle == [tag |-> "Idle"]

InBacklog(top, skip) == [tag |-> "InBacklog", top |-> top, skip |-> skip]

NewIssue == [tag |-> "NewIssue"]

NewIssueSummary(summary) == [tag |-> "NewIssueSummary", summary |-> summary]

NewIssueSummaryProject(summary, project) ==
  [tag |-> "NewIssueSummaryProject", summary |-> summary, project |-> project]

NewIssueSummaryProjectStream(summary, project, stream) ==
  [tag |-> "NewIssueSummaryProjectStream", summary |-> summary, project |-> project,
   stream |-> stream]

NewIssueSummaryProjectStreamType(summary, project, stream, issue_type) ==
  [tag |-> "NewIssueSummaryProjectStreamType", summary |-> summary, project |-> project,
   stream |-> stream, issue_type |-> issue_type]

NewIssueSummaryProjectStreamTypeDesc(summary, project, stream, issue_type, desc) ==
  [tag |-> "NewIssueSummaryProjectStreamTypeDesc", summary |-> summary,
   project |-> project, stream |-> stream, issue_type |-> issue_type, desc |-> desc]

\* the variant machine! adds to the enum
Error == [tag |-> "Error"]

\* no record under the key "state:{uid}"
Absent == [tag |-> "Absent"]

\* a record under the key that from_redis_value cannot parse
Corrupt == [tag |-> "Corrupt"]

\* the Err get_state returns when reading the record fails
RedisErr == [tag |-> "RedisErr"]

StateTags ==
  {"Idle", "InBacklog", "NewIssue", "NewIssueSummary", "NewIssueSummaryProject",
   "NewIssueSummaryProjectStream", "NewIssueSummaryProjectStreamType",
   "NewIssueSummaryProjectStreamTypeDesc"}

NewIssueTags == StateTags \ {"Idle", "InBacklog"}

(* ----------------------- states.rs: UserStateMessages ------------------ *)
StartBacklog(p) == [m |-> "StartBacklog", p |-> p]

BacklogPage(p) == [m |-> "BacklogPage", p |-> p]

StopBacklog == [m |-> "StopBacklog"]

Save == [m |-> "Save"]

Cancel == [m |-> "Cancel"]

Noop == [m |-> "Noop"]

CreateNewIssue == [m |-> "CreateNewIssue"]

IssueSummary(summary) == [m |-> "IssueSummary", summary |-> summary]

IssueSummaryProject(summary, project) ==
  [m |-> "IssueSummaryProject", summary |-> summary, project |-> project]

IssueStream(id, value) == <<id, value>>

IssueType(id, value) == <<id, value>>

IssueSummaryProjectStream(summary, project, stream) ==
  [m |-> "IssueSummaryProjectStream", summary |-> summary, project |-> project,
   stream |-> stream]

IssueSummaryProjectStreamType(summary, project, stream, issue_type) ==
  [m |-> "IssueSummaryProjectStreamType", summary |-> summary, project |-> project,
   stream |-> stream, issue_type |-> issue_type]

IssueSummaryProjectStreamTypeDesc(summary, project, stream, issue_type, desc) ==
  [m |-> "IssueSummaryProjectStreamTypeDesc", summary |-> summary, project |-> project,
   stream |-> stream, issue_type |-> issue_type, desc |-> desc]

(* ----------------------- states.rs: the on_* methods ------------------- *)
\* a slip in the field copied: the page size taken for the offset
on_start_backlog_skewed(msg) == InBacklog(msg.p.top, msg.p.top)

on_start_backlog(msg) == InBacklog(msg.p.top, msg.p.skip)

on_backlog_page(msg) == InBacklog(msg.p.top, msg.p.skip)

\* a slip in the transition's target
on_stop_backlog_wrong_target == NewIssue

on_stop_backlog == Idle

on_create_new_issue == NewIssue

\* a Cancel that starts the chain over instead of leaving it
on_cancel_restart == NewIssue

on_cancel == Idle

on_save == Idle

on_noop(state) == state

\* the summary is dropped and the state left as it was
on_issue_summary_stay(msg) == NewIssue

\* on_issue_message!: the message's fields become the next state's fields
on_issue_summary(msg) == NewIssueSummary(msg.summary)

on_issue_summary_project(msg) == NewIssueSummaryProject(msg.summary, msg.project)

on_issue_summary_project_stream(msg) ==
  NewIssueSummaryProjectStream(msg.summary, msg.project, msg.stream)

on_issue_summary_project_stream_type(msg) ==
  NewIssueSummaryProjectStreamType(msg.summary, msg.project, msg.stream, msg.issue_type)

\* the positional fields of the tuple struct bound in the wrong order
on_issue_summary_project_stream_type_desc_mixed(msg) ==
  NewIssueSummaryProjectStreamTypeDesc(msg.desc, msg.project, msg.stream,
                                       msg.issue_type, msg.summary)

on_issue_summary_project_stream_type_desc(msg) ==
  NewIssueSummaryProjectStreamTypeDesc(msg.summary, msg.project, msg.stream,
                                       msg.issue_type, msg.desc)

\* transitions!(UserState, [...]): a pair the table does not list gives Error
execute(state, msg) ==
  CASE state.tag = "Idle" /\ msg.m = "StartBacklog" -> on_start_backlog(msg)
    [] state.tag = "InBacklog" /\ msg.m = "StopBacklog" -> on_stop_backlog
    [] state.tag = "InBacklog" /\ msg.m = "BacklogPage" -> on_backlog_page(msg)
    [] state.tag = "Idle" /\ msg.m = "Noop" -> on_noop(state)
    [] state.tag = "Idle" /\ msg.m = "CreateNewIssue" -> on_create_new_issue
    [] state.tag = "NewIssue" /\ msg.m = "IssueSummary" -> on_issue_summary(msg)
    [] state.tag = "NewIssueSummary" /\ msg.m = "IssueSummaryProject" ->
         on_issue_summary_project(msg)
    [] state.tag = "NewIssueSummaryProject" /\ msg.m = "IssueSummaryProjectStream" ->
         on_issue_summary_project_stream(msg)
    [] state.tag = "NewIssueSummaryProjectStream"
         /\ msg.m = "IssueSummaryProjectStreamType" ->
         on_issue_summary_project_stream_type(msg)
    [] state.tag = "NewIssueSummaryProjectStreamType"
         /\ msg.m = "IssueSummaryProjectStreamTypeDesc" ->
         on_issue_summary_project_stream_type_desc(msg)
    [] state.tag \in NewIssueTags /\ msg.m = "Cancel" -> on_cancel
    [] state.tag \in NewIssueTags /\ msg.m = "Noop" -> on_noop(state)
    [] state.tag = "NewIssueSummaryProjectStreamTypeDesc" /\ msg.m = "Save" -> on_save
    [] OTHER -> Error

(* ------------------- commands.rs: CallbackParams, BotCommand ----------- *)
CallbackParams_BacklogStop == [t |-> "bs"]

CallbackParams_BacklogNext(p) == [t |-> "bn", p |-> p]

CallbackParams_BacklogPrev(p) == [t |-> "bp", p |-> p]

CallbackParams_VoteForIssue(id, has_vote) == [t |-> "vi", id |-> id, has_vote |-> has_vote]

\* a keyword recognised at the start of the text, as starts_with would
BotCommand_from_message_prefix(data) ==
  LET Starts(k) == Len(data) >= Len(k) /\ SubSeq(data, 1, Len(k)) = k
  IN CASE Starts("/backlog") -> [kind |-> "Backlog", p |-> BacklogParams_new(DefaultTop)]
       [] Starts("/start") -> [kind |-> "Start"]
       [] Starts("/login") -> [kind |-> "Login"]
       [] Starts("/stop") -> [kind |-> "Stop"]
       [] Starts("/new_issue") -> [kind |-> "NewIssue"]
       [] Starts("/save") -> [kind |-> "Save"]
       [] Starts("/cancel") -> [kind |-> "Cancel"]
       [] OTHER -> [kind |-> "Text", text |-> data]

\* impl TryFrom<Message> for BotCommand, for a text message carrying data
BotCommand_from_message(data) ==
  CASE data = "/backlog" -> [kind |-> "Backlog", p |-> BacklogParams_new(DefaultTop)]
    [] data = "/start" -> [kind |-> "Start"]
    [] data = "/login" -> [kind |-> "Login"]
    [] data = "/stop" -> [kind |-> "Stop"]
    [] data = "/new_issue" -> [kind |-> "NewIssue"]
    [] data = "/save" -> [kind |-> "Save"]
    [] data = "/cancel" -> [kind |-> "Cancel"]
    [] OTHER -> [kind |-> "Text", text |-> data]

\* impl TryFrom<CallbackQuery> for BotCommand, for data that decodes to params;
\* mid names the message the button sits on, has_msg is cb.message.is_some()
BotCommand_from_callback(params, mid, has_msg) ==
  CASE params.t = "bs" -> [kind |-> "BacklogStop", mid |-> mid, has_msg |-> has_msg]
    [] params.t = "bn" ->
         [kind |-> "BacklogNext", p |-> params.p, mid |-> mid, has_msg |-> has_msg]
    [] params.t = "bp" ->
         [kind |-> "BacklogPrev", p |-> params.p, mid |-> mid, has_msg |-> has_msg]
    [] params.t = "vi" ->
         [kind |-> "BacklogVoteForIssue", id |-> params.id, has_vote |-> params.has_vote,
          mid |-> mid, has_msg |-> has_msg]

CallbackKinds == {"BacklogStop", "BacklogNext", "BacklogPrev", "BacklogVoteForIssue"}

(* ------------- commands.rs: the self-describing token codec ------------ *)
\* Strings are TLA+ strings, one character per byte. The JSON text handled is
\* that of flat objects whose values are strings, integers and booleans, without
\* white space; of the string escapes only \" and \\ are read and written.

\* the character at position i of str, "" past its end
Ch(str, i) == IF i >= 1 /\ i <= Len(str) THEN SubSeq(str, i, i) ELSE ""

Digits == {"0", "1", "2", "3", "4", "5", "6", "7", "8", "9"}

DigitValue(c) ==
  CASE c = "0" -> 0 [] c = "1" -> 1 [] c = "2" -> 2 [] c = "3" -> 3 [] c = "4" -> 4
    [] c = "5" -> 5 [] c = "6" -> 6 [] c = "7" -> 7 [] c = "8" -> 8 [] c = "9" -> 9

\* serde_json writes a string between quotes with " and \ escaped
RECURSIVE json_escape(_)
json_escape(str) ==
  IF str = "" THEN ""
  ELSE LET c == Head(str)
       IN (IF c \in {"\"", "\\"} THEN "\\" \o c ELSE c) \o json_escape(Tail(str))

json_string(str) == "\"" \o json_escape(str) \o "\""

\* to_string that writes the tag "bn" for both paging variants
CallbackParams_to_string_one_tag(item) ==
  CASE item.t = "bs" -> "{\"_t\":\"bs\"}"
    [] item.t \in {"bn", "bp"} ->
         "{\"_t\":\"bn\",\"t\":" \o ToString(item.p.top)
           \o ",\"s\":" \o ToString(item.p.skip) \o "}"
    [] item.t = "vi" ->
         "{\"_t\":\"vi\",\"i\":" \o json_string(item.id)
           \o ",\"v\":" \o (IF item.has_vote THEN "true" ELSE "false") \o "}"

\* serde_json::to_string(&item) under #[serde(tag = "_t")] and the renames of
\* the variants ("bn", "bp", "vi", "bs") and of the fields ("t", "s", "i", "v")
\* an i32 is written as its decimal digits, "-" first when negative
CallbackParams_to_string(item) ==
  CASE item.t = "bs" -> "{\"_t\":\"bs\"}"
    [] item.t \in {"bn", "bp"} ->
         "{\"_t\":" \o json_string(item.t) \o ",\"t\":" \o ToString(item.p.top)
           \o ",\"s\":" \o ToString(item.p.skip) \o "}"
    [] item.t = "vi" ->
         "{\"_t\":\"vi\",\"i\":" \o json_string(item.id)
           \o ",\"v\":" \o (IF item.has_vote THEN "true" ELSE "false") \o "}"

\* the text on the button
button_text(item) ==
  CASE item.t = "bs" -> "stop"
    [] item.t = "bn" -> "next"
    [] item.t = "bp" -> "prev"
    [] item.t = "vi" -> IF item.has_vote THEN "* " \o item.id ELSE item.id

\* no button has been made
NoButton == [made |-> FALSE, panic |-> FALSE, text |-> "", data |-> ""]

\* the conversion panicked
ButtonPanic == [made |-> FALSE, panic |-> TRUE, text |-> "", data |-> ""]

\* InlineKeyboardButton::callback(text, data)
Button(text, data) == [made |-> TRUE, panic |-> FALSE, text |-> text, data |-> data]

\* the conversion without the check of the length
CallbackParams_into_button_unchecked(item) ==
  Button(button_text(item), CallbackParams_to_string(item))

\* impl From<CallbackParams> for InlineKeyboardButton (commands.rs)
CallbackParams_into_button(item) ==
  LET val == CallbackParams_to_string(item)
  IN IF Len(val) > MaxCallbackData THEN ButtonPanic
     ELSE Button(button_text(item), val)

\* JSON values as the reader holds them; fits says that an integer is an i32
JStr(str) == [k |-> "str", s |-> str, n |-> 0, fits |-> TRUE, b |-> FALSE]

JInt(n, fits) == [k |-> "int", s |-> "", n |-> n, fits |-> fits, b |-> FALSE]

JBool(b) == [k |-> "bool", s |-> "", n |-> 0, fits |-> TRUE, b |-> b]

\* what a reading step gives: the value read and the position after it, or the
\* category of the serde_json error ("eof" at the end of the input, "syntax")
Read(v, next) == [ok |-> TRUE, cat |-> "", v |-> v, next |-> next]

ReadErr(cat) == [ok |-> FALSE, cat |-> cat, v |-> JBool(FALSE), next |-> 0]

\* "eof" when the input ends at position i, "syntax" for any other character
Unexpected(str, i) == ReadErr(IF Ch(str, i) = "" THEN "eof" ELSE "syntax")

\* the characters of a string from position i up to its closing quote
RECURSIVE scan_string(_, _, _)
scan_string(str, i, acc) ==
  LET c == Ch(str, i)
      d == Ch(str, i + 1)
  IN IF c = "" THEN ReadErr("eof")
     ELSE IF c = "\"" THEN Read(JStr(acc), i + 1)
     ELSE IF c = "\\"
       THEN IF d \in {"\"", "\\"} THEN scan_string(str, i + 2, acc \o d)
            ELSE Unexpected(str, i + 1)
     ELSE scan_string(str, i + 1, acc \o c)

\* the digits from position i, accumulated as a number <= 0 while it is an i32
RECURSIVE scan_digits(_, _, _, _)
scan_digits(str, i, acc, fits) ==
  LET c == Ch(str, i)
  IN IF c \notin Digits THEN [n |-> acc, fits |-> fits, next |-> i]
     ELSE LET d == DigitValue(c)
              room == fits /\ acc >= (I32Min + d + 9) \div 10
          IN scan_digits(str, i + 1, IF room THEN acc * 10 - d ELSE acc, room)

\* a JSON integer at position i
scan_number(str, i) ==
  LET neg == Ch(str, i) = "-"
      start == IF neg THEN i + 1 ELSE i
      d == scan_digits(str, start, 0, TRUE)
      fits == d.fits /\ (neg \/ d.n > I32Min)
  IN IF Ch(str, start) \notin Digits THEN Unexpected(str, start)
     ELSE IF Ch(str, start) = "0" /\ Ch(str, start + 1) \in Digits THEN ReadErr("syntax")
     ELSE Read(JInt(IF ~fits THEN 0 ELSE IF neg THEN d.n ELSE -d.n, fits), d.next)

\* the word (true, false) at position i
scan_word(str, i, word, v) ==
  LET n == Len(word)
      have == IF i + n - 1 <= Len(str) THEN n ELSE Len(str) - i + 1
  IN IF SubSeq(str, i, i + have - 1) # SubSeq(word, 1, have) THEN ReadErr("syntax")
     ELSE IF have < n THEN ReadErr("eof")
     ELSE Read(v, i + n)

scan_value(str, i) ==
  LET c == Ch(str, i)
  IN CASE c = "\"" -> scan_string(str, i + 1, "")
       [] c = "-" \/ c \in Digits -> scan_number(str, i)
       [] c = "t" -> scan_word(str, i, "true", JBool(TRUE))
       [] c = "f" -> scan_word(str, i, "false", JBool(FALSE))
       [] OTHER -> Unexpected(str, i)

\* the members of an object from the key at position i; acc holds those read
RECURSIVE scan_members(_, _, _)
scan_members(str, i, acc) ==
  LET Member(key, val) ==
        LET sep == Ch(str, val.next)
        IN IF Ch(str, i) # "\"" THEN Unexpected(str, i)
           ELSE IF ~key.ok THEN key
           ELSE IF Ch(str, key.next) # ":" THEN Unexpected(str, key.next)
           ELSE IF ~val.ok THEN val
           ELSE IF sep = ","
             THEN scan_members(str, val.next + 1, Append(acc, <<key.v.s, val.v>>))
           ELSE IF sep = "}"
             THEN [ok |-> TRUE, cat |-> "", members |-> Append(acc, <<key.v.s, val.v>>),
                   next |-> val.next + 1]
           ELSE Unexpected(str, val.next)
      Key(key) == Member(key, scan_value(str, key.next + 1))
  IN Key(scan_string(str, i + 1, ""))

\* a JSON text that is one object: its members in order; the text has to end
\* after the object ("trailing characters" is a syntax error); a text that is a
\* number, a string or a boolean is well-formed but no object (cat "data")
parse_json(str) ==
  LET Fail(cat) == [ok |-> FALSE, cat |-> cat, members |-> <<>>]
      Text(obj, val) ==
        IF Ch(str, 1) = "{"
          THEN IF ~obj.ok THEN Fail(obj.cat)
               ELSE IF obj.next <= Len(str) THEN Fail("syntax")
               ELSE [ok |-> TRUE, cat |-> "", members |-> obj.members]
          ELSE IF ~val.ok THEN Fail(val.cat)
               ELSE IF val.next <= Len(str) THEN Fail("syntax")
               ELSE Fail("data")
  IN Text(IF Ch(str, 2) = "}"
            THEN [ok |-> TRUE, cat |-> "", members |-> <<>>, next |-> 3]
            ELSE scan_members(str, 2, <<>>),
          scan_value(str, 1))

\* the result of serde_json::from_str::<CallbackParams>: the value, or the
\* serde_json::Error with its category (Syntax, Eof, Data) and its message
Parsed(value) == [ok |-> TRUE, value |-> value, category |-> "", msg |-> ""]

JsonError(category, msg) ==
  [ok |-> FALSE, value |-> [t |-> "none"], category |-> category, msg |-> msg]

\* the values of the members named key
Field(members, key) == {j \in 1..Len(members) : members[j][1] = key}

\* a tag that names no variant reported like a text that is no JSON
unknown_variant_as_syntax == JsonError("syntax", "expected value")

\* the error of the derived Deserialize for a tag that names no variant of
\* CallbackParams
unknown_variant == JsonError("data", "unknown variant")

\* serde_json::from_str::<CallbackParams>(data): an internally tagged enum; the
\* member "_t" names the variant, the other members are the variant's fields and
\* members that are no field are ignored
CallbackParams_from_str(str) ==
  LET Value(doc) ==
        LET m == doc.members
            One(key) == m[CHOOSE j \in Field(m, key) : TRUE][2]
            tags == Field(m, "_t")
            Variants == <<"bn", "bp", "vi", "bs">>
            tag == One("_t")
            variant ==
              IF tag.k = "str" THEN tag.s
              ELSE IF tag.k = "int" /\ tag.fits /\ tag.n \in 0..3 THEN Variants[tag.n + 1]
              ELSE ""
            \* a field of the variant's struct, of JSON kind k
            Bad(key, k) ==
              IF Field(m, key) = {} THEN "missing field"
              ELSE IF Cardinality(Field(m, key)) > 1 THEN "duplicate field"
              ELSE IF One(key).k # k THEN "invalid type"
              ELSE IF ~One(key).fits THEN "invalid value"
              ELSE ""
            Struct(keys, kinds, value) ==
              LET bad == {j \in 1..Len(keys) : Bad(keys[j], kinds[j]) # ""}
                  Report(j) == JsonError("data", Bad(keys[j], kinds[j]))
              IN IF bad # {} THEN Report(CHOOSE j \in bad : \A l \in bad : j <= l)
                 ELSE Parsed(value)
        IN IF ~doc.ok
             THEN JsonError(doc.cat,
                            IF doc.cat = "data" THEN "invalid type" ELSE "expected value")
           ELSE IF tags = {} THEN JsonError("data", "missing field")
           ELSE IF Cardinality(tags) > 1 THEN JsonError("data", "duplicate field")
           ELSE IF tag.k = "bool" THEN JsonError("data", "invalid type")
           ELSE IF variant \notin {"bn", "bp", "vi", "bs"}
             THEN unknown_variant
           ELSE IF variant = "bs" THEN Parsed(CallbackParams_BacklogStop)
           ELSE IF variant = "vi"
             THEN Struct(<<"i", "v">>, <<"str", "bool">>,
                         CallbackParams_VoteForIssue(One("i").s, One("v").b))
           ELSE Struct(<<"t", "s">>, <<"int", "int">>,
                       [t |-> variant, p |-> [top |-> One("t").n, skip |-> One("s").n]])
  IN Value(parse_json(str))

\* the Result of BotCommand::try_from(cb): the command, or the Error (of kind
\* Json with the serde_json error inside, or of kind Msg from bail!)
NoResult == [ok |-> FALSE, cmd |-> [kind |-> "None"], kind |-> "", category |-> "", msg |-> ""]

\* impl TryFrom<CallbackQuery> for BotCommand; data is cb.data as a set ({} is
\* None), mid names the message the button sits on, has_msg is cb.message.is_some()
BotCommand_try_from_callback(data, mid, has_msg) ==
  LET Command(r) ==
        IF ~r.ok
          THEN [ok |-> FALSE, cmd |-> [kind |-> "None"], kind |-> "Json",
                category |-> r.category, msg |-> r.msg]
          ELSE [ok |-> TRUE, cmd |-> BotCommand_from_callback(r.value, mid, has_msg),
                kind |-> "", category |-> "", msg |-> ""]
  IN IF data = {}
       THEN [ok |-> FALSE, cmd |-> [kind |-> "None"], kind |-> "Msg", category |-> "",
             msg |-> "No callback query data"]
     ELSE Command(CallbackParams_from_str(CHOOSE d \in data : TRUE))

\* impl TryFrom<Message> for BotCommand; text is the data of MessageKind::Text as
\* a set ({} for a message of another kind)
BotCommand_try_from_message(text) ==
  IF text = {}
    THEN [ok |-> FALSE, cmd |-> [kind |-> "None"], kind |-> "Msg", category |-> "",
          msg |-> "Unsupported message kind"]
    ELSE [ok |-> TRUE, cmd |-> BotCommand_from_message(CHOOSE d \in text : TRUE),
          kind |-> "", category |-> "", msg |-> ""]


Range(s) == {s[i] : i \in 1..Len(s)}

\* bot.rs backlog_keyboard: the buttons of the keyboard (the vote rows and the last row)
backlog_keyboard(issues, params) ==
  LET issues_buttons == {CallbackParams_VoteForIssue(i.id, i.has_vote) : i \in issues}
      prev == BacklogParams_prev(params)
      row0 == <<CallbackParams_BacklogStop>>
      row1 == IF prev # {}
                THEN Append(row0, CallbackParams_BacklogPrev(CHOOSE q \in prev : TRUE))
                ELSE row0
      popped == SubSeq(row1, 1, Len(row1) - 1)
      prevprev == UNION {BacklogParams_prev(q) : q \in prev}
      row2 == IF issues # {}
                THEN Append(row1, CallbackParams_BacklogNext(BacklogParams_next(params)))
                ELSE IF prevprev # {}
                       THEN Append(popped,
                                   CallbackParams_BacklogPrev(CHOOSE q \in prevprev : TRUE))
                       ELSE popped
  IN issues_buttons \cup Range(row2)

\* backlog_keyboard(&issues, &params) in a build with (checks) or without
\* overflow checks: params.prev() is evaluated for every page, params.next() for a
\* page with issues, prev.prev() for an empty page that has a page before it
keyboard_call(issues, params, checks) ==
  LET prev == BacklogParams_prev(params)
      overflows ==
        \/ BacklogParams_prev_overflows(params)
        \/ issues # {} /\ BacklogParams_next_overflows(params)
        \/ issues = {} /\ \E q \in prev : BacklogParams_prev_overflows(q)
  IN IF checks /\ overflows
       THEN Panicked
       ELSE Returned({[issues |-> issues, kb |-> backlog_keyboard(issues, params)]})

(* ----------------------------- models.rs ------------------------------- *)
\* any text accepted once the bundle has values
has_value_any(bundle, name) == bundle.values # {}

\* Bundle::has_value; a bundle is [values |-> {} (None) or {set of names} (Some)]
has_value(bundle, name) ==
  IF bundle.values # {} THEN \E vs \in bundle.values : name \in vs ELSE FALSE

\* what a bundle request answers: transport error, a body that does not parse,
\* a bundle without values, or the bundle with the given values
BundleOutcomes == {"err", "unparsed", "novalues", "ok"}

Bundle(outcome, vals) == [values |-> IF outcome = "ok" THEN {vals} ELSE {}]

\* Bot::get_project: binary search by name over the sorted project list
get_project(name) == {p \in TrackerProjects : p.name = name}

(* ------------------- bot.rs: results of the state handlers ------------- *)
NoKb == [op |-> "none", kb |-> {}]

\* ret: "Ok" (the handler returned a message), "Err" (a ? propagated), "Panic";
\* calls: collaborator requests made; failed: one of them failed;
\* sent: what the user was sent; page: the backlog page rendered, if any;
\* kbop: what happened to an inline keyboard
Res(ret, msg, calls, failed, sent, page, kbop) ==
  [ret |-> ret, msg |-> msg, calls |-> calls, failed |-> failed, sent |-> sent,
   page |-> page, kbop |-> kbop, login |-> FALSE, expired |-> FALSE, draft |-> {}]

\* an unrecognised command acknowledged like a Cancel
noop_arm_cancel == Res("Ok", Cancel, {}, FALSE, {"cancel"}, {}, NoKb)

\* the `_ => UserStateMessages::Noop(Noop {})` arm the handlers end with
noop_arm == Res("Ok", Noop, {}, FALSE, {}, {}, NoKb)

\* fetch_issues that asks the tracker whether or not a credential was found
fetch_issues_unchecked(cred, is_bot, params, env) ==
  IF ~env.fetch.ok
    THEN Res("Ok", Noop, {"fetch"}, TRUE, {"error"}, {}, NoKb)
    ELSE IF ~env.send
      THEN Res("Err", Noop, {"fetch", "send"}, TRUE, {}, {}, NoKb)
      ELSE Res("Ok",
               IF params.skip = 0 THEN StartBacklog(params) ELSE BacklogPage(params),
               {"fetch", "send"}, FALSE, {"page"}, {params},
               [op |-> IF is_bot THEN "edit" ELSE "new",
                kb |-> backlog_keyboard(env.fetch.issues, params)])

\* Bot::fetch_issues; cred is get_youtrack(user).is_some(), is_bot is msg.from.is_bot
fetch_issues(cred, is_bot, params, env) ==
  IF ~cred
    THEN Res("Ok", Noop, {}, FALSE, {"login_hint"}, {}, NoKb)
    ELSE IF ~env.fetch.ok
      THEN Res("Ok", Noop, {"fetch"}, TRUE, {"error"}, {}, NoKb)
      ELSE IF ~env.send
        THEN Res("Err", Noop, {"fetch", "send"}, TRUE, {}, {}, NoKb)
        ELSE Res("Ok",
                 IF params.skip = 0 THEN StartBacklog(params) ELSE BacklogPage(params),
                 {"fetch", "send"}, FALSE, {"page"}, {params},
                 [op |-> IF is_bot THEN "edit" ELSE "new",
                  kb |-> backlog_keyboard(env.fetch.issues, params)])

handle_start(env) ==
  IF env.send
    THEN Res("Ok", Noop, {"send"}, FALSE, {"greeting"}, {}, NoKb)
    ELSE Res("Err", Noop, {"send"}, TRUE, {}, {}, NoKb)

\* the CSRF token is inserted before the link is sent
handle_login(env) ==
  IF env.send
    THEN [Res("Ok", Noop, {"send"}, FALSE, {"auth_link"}, {}, NoKb) EXCEPT !.login = TRUE]
    ELSE [Res("Err", Noop, {"send"}, TRUE, {}, {}, NoKb) EXCEPT !.login = TRUE]

\* the prompt is sent but the handler reports no state change
handle_new_issue_noop(env) ==
  IF env.send
    THEN Res("Ok", Noop, {"send"}, FALSE, {"prompt_summary"}, {}, NoKb)
    ELSE Res("Err", Noop, {"send"}, TRUE, {}, {}, NoKb)

handle_new_issue(env) ==
  IF env.send
    THEN Res("Ok", CreateNewIssue, {"send"}, FALSE, {"prompt_summary"}, {}, NoKb)
    ELSE Res("Err", Noop, {"send"}, TRUE, {}, {}, NoKb)

handle_command_idle(state, cmd, cred, env) ==
  CASE cmd.kind = "Backlog" -> fetch_issues(cred, FALSE, cmd.p, env)
    [] cmd.kind = "Start" -> handle_start(env)
    [] cmd.kind = "Login" -> handle_login(env)
    [] cmd.kind = "NewIssue" -> handle_new_issue(env)
    [] OTHER -> noop_arm

\* the re-render after a vote starts over at the first page
vote_for_issue_first_page(state, cred, env) ==
  IF env.vote = "ok"
    THEN LET r == fetch_issues(cred /\ ~env.expire, TRUE,
                               BacklogParams_new(state.top), env)
         IN [r EXCEPT !.calls = @ \cup {"vote"}, !.sent = @ \cup {"voted"},
                      !.expired = env.expire]
    ELSE Res("Ok", Noop, {"vote"}, TRUE, {"error"}, {}, NoKb)

\* Bot::vote_for_issue followed by the re-render of the page the state names
vote_for_issue(state, cred, env) ==
  IF env.vote = "ok"
    THEN LET r == fetch_issues(cred /\ ~env.expire, TRUE,
                               BacklogParams_new_with_skip(state.top, state.skip), env)
         IN [r EXCEPT !.calls = @ \cup {"vote"}, !.sent = @ \cup {"voted"},
                      !.expired = env.expire]
    ELSE Res("Ok", Noop, {"vote"}, TRUE, {"error"}, {}, NoKb)

handle_command_in_backlog(state, cmd, cred, env) ==
  CASE cmd.kind \in CallbackKinds /\ ~cmd.has_msg ->
         Res("Panic", Noop, {}, FALSE, {}, {}, NoKb)
    [] cmd.kind = "BacklogStop" /\ cmd.has_msg ->
         IF env.send
           THEN Res("Ok", StopBacklog, {"send"}, FALSE, {}, {}, [op |-> "clear", kb |-> {}])
           ELSE Res("Err", Noop, {"send"}, TRUE, {}, {}, NoKb)
    [] cmd.kind \in {"BacklogNext", "BacklogPrev"} /\ cmd.has_msg ->
         fetch_issues(cred, TRUE, cmd.p, env)
    [] cmd.kind = "BacklogVoteForIssue" /\ cmd.has_msg ->
         IF cred
           THEN vote_for_issue(state, cred, env)
           ELSE Res("Ok", StopBacklog, {}, FALSE, {"login_hint"}, {},
                    [op |-> "spawn_clear", kb |-> {}])
    [] OTHER -> noop_arm

\* the Cancel arm every NewIssue* handler has
cancel_arm == Res("Ok", Cancel, {}, FALSE, {"cancel"}, {}, NoKb)

handle_command_new_issue(state, cmd, env) ==
  CASE cmd.kind = "Text" ->
         IF env.projects = "err"
           THEN Res("Err", Noop, {"projects"}, TRUE, {}, {}, NoKb)
           ELSE IF env.projects = "noname"
             THEN Res("Panic", Noop, {"projects"}, FALSE, {}, {}, NoKb)
             ELSE Res("Ok", IssueSummary(cmd.text), {"projects"}, FALSE,
                      {"prompt_project"}, {}, NoKb)
    [] cmd.kind = "Cancel" -> cancel_arm
    [] OTHER -> noop_arm

handle_command_new_issue_summary(state, cmd, env) ==
  CASE cmd.kind = "Text" ->
         IF env.projects = "err"
           THEN Res("Ok", Noop, {"projects"}, TRUE, {}, {}, NoKb)
           ELSE IF get_project(cmd.text) = {}
             THEN Res("Ok", Noop, {"projects"}, FALSE, {}, {}, NoKb)
             ELSE LET project == CHOOSE p \in get_project(cmd.text) : TRUE
                  IN CASE env.bundle1 = "err" ->
                            Res("Err", Noop, {"projects", "bundle"}, TRUE, {}, {}, NoKb)
                       [] env.bundle1 \in {"unparsed", "novalues"} ->
                            Res("Panic", Noop, {"projects", "bundle"}, FALSE, {}, {}, NoKb)
                       [] OTHER ->
                            Res("Ok", IssueSummaryProject(state.summary, project),
                                {"projects", "bundle"}, FALSE, {"prompt_stream"}, {}, NoKb)
    [] cmd.kind = "Cancel" -> cancel_arm
    [] OTHER -> noop_arm

handle_command_new_issue_summary_project(state, cmd, env) ==
  CASE cmd.kind = "Text" ->
         CASE env.bundle1 = "err" -> Res("Err", Noop, {"bundle"}, TRUE, {}, {}, NoKb)
           [] env.bundle1 = "unparsed" -> Res("Panic", Noop, {"bundle"}, FALSE, {}, {}, NoKb)
           [] OTHER ->
                IF has_value(Bundle(env.bundle1, StreamValues), cmd.text)
                  THEN CASE env.bundle2 = "err" ->
                              Res("Err", Noop, {"bundle"}, TRUE, {}, {}, NoKb)
                         [] env.bundle2 \in {"unparsed", "novalues"} ->
                              Res("Panic", Noop, {"bundle"}, FALSE, {}, {}, NoKb)
                         [] OTHER ->
                              Res("Ok",
                                  IssueSummaryProjectStream(state.summary, state.project,
                                      IssueStream("f_stream", cmd.text)),
                                  {"bundle"}, FALSE, {"prompt_type"}, {}, NoKb)
                  ELSE Res("Ok", Noop, {"bundle"}, FALSE, {}, {}, NoKb)
    [] cmd.kind = "Cancel" -> cancel_arm
    [] OTHER -> noop_arm

handle_command_new_issue_summary_project_stream(state, cmd, env) ==
  CASE cmd.kind = "Text" ->
         CASE env.bundle1 = "err" -> Res("Err", Noop, {"bundle"}, TRUE, {}, {}, NoKb)
           [] env.bundle1 = "unparsed" -> Res("Panic", Noop, {"bundle"}, FALSE, {}, {}, NoKb)
           [] OTHER ->
                IF has_value(Bundle(env.bundle1, TypeValues), cmd.text)
                  THEN Res("Ok",
                           IssueSummaryProjectStreamType(state.summary, state.project,
                               state.stream, IssueType("f_type", cmd.text)),
                           {"bundle"}, FALSE, {"prompt_desc"}, {}, NoKb)
                  ELSE Res("Ok", Noop, {"bundle"}, FALSE, {}, {}, NoKb)
    [] cmd.kind = "Cancel" -> cancel_arm
    [] OTHER -> noop_arm

handle_command_new_issue_summary_project_stream_type(state, cmd, env) ==
  CASE cmd.kind = "Text" ->
         Res("Ok",
             IssueSummaryProjectStreamTypeDesc(state.summary, state.project, state.stream,
                                               state.issue_type, cmd.text),
             {}, FALSE, {"draft_preview"}, {}, NoKb)
    [] cmd.kind = "Cancel" -> cancel_arm
    [] OTHER -> noop_arm

\* the draft built without the description typed in the last step
IssueDraft_no_desc(state) ==
  [summary |-> state.summary, description |-> "", project |-> state.project.id,
   custom_fields |-> <<<<state.stream[1], "Stream", state.stream[2]>>,
                       <<state.issue_type[1], "Type", state.issue_type[2]>>>>]

\* IssueDraft built from the state's fields
IssueDraft(state) ==
  [summary |-> state.summary, description |-> state.desc, project |-> state.project.id,
   custom_fields |-> <<<<state.stream[1], "Stream", state.stream[2]>>,
                       <<state.issue_type[1], "Type", state.issue_type[2]>>>>]

handle_command_new_issue_summary_project_stream_type_desc(state, cmd, env) ==
  CASE cmd.kind = "Save" ->
         CASE env.create = "ok" ->
                [Res("Ok", Save, {"create"}, FALSE, {"save", "created"}, {}, NoKb)
                   EXCEPT !.draft = {IssueDraft(state)}]
           [] env.create = "noid" ->
                [Res("Panic", Noop, {"create"}, FALSE, {"save"}, {}, NoKb)
                   EXCEPT !.draft = {IssueDraft(state)}]
           [] OTHER ->
                [Res("Err", Noop, {"create"}, TRUE, {"save"}, {}, NoKb)
                   EXCEPT !.draft = {IssueDraft(state)}]
    [] cmd.kind = "Cancel" -> cancel_arm
    [] OTHER -> noop_arm

handle_command_error == noop_arm

\* match_user_state!: the handler of the state's variant
match_user_state(state, cmd, cred, env) ==
  CASE state.tag = "Idle" -> handle_command_idle(state, cmd, cred, env)
    [] state.tag = "InBacklog" -> handle_command_in_backlog(state, cmd, cred, env)
    [] state.tag = "NewIssue" -> handle_command_new_issue(state, cmd, env)
    [] state.tag = "NewIssueSummary" -> handle_command_new_issue_summary(state, cmd, env)
    [] state.tag = "NewIssueSummaryProject" ->
         handle_command_new_issue_summary_project(state, cmd, env)
    [] state.tag = "NewIssueSummaryProjectStream" ->
         handle_command_new_issue_summary_project_stream(state, cmd, env)
    [] state.tag = "NewIssueSummaryProjectStreamType" ->
         handle_command_new_issue_summary_project_stream_type(state, cmd, env)
    [] state.tag = "NewIssueSummaryProjectStreamTypeDesc" ->
         handle_command_new_issue_summary_project_stream_type_desc(state, cmd, env)
    [] OTHER -> handle_command_error

\* handle_command without its check for the Error variant
handle_command_unchecked(state, cmd, cred, env) ==
  LET h == match_user_state(state, cmd, cred, env)
  IN IF h.ret = "Panic"
       THEN [outcome |-> "panic", new_state |-> state, h |-> h]
       ELSE IF h.ret = "Err"
         THEN [outcome |-> "error", new_state |-> state, h |-> h]
         ELSE [outcome |-> "ok", new_state |-> execute(state, h.msg), h |-> h]

\* Bot::handle_command: outcome "ok" carries the state to store, "invalid" is the
\* bail!("Invalid transition"), "error" a propagated failure, "panic" an unwinding
handle_command(state, cmd, cred, env) ==
  LET h == match_user_state(state, cmd, cred, env)
  IN IF h.ret = "Panic"
       THEN [outcome |-> "panic", new_state |-> state, h |-> h]
       ELSE IF h.ret = "Err"
         THEN [outcome |-> "error", new_state |-> state, h |-> h]
         ELSE IF execute(state, h.msg) = Error
           THEN [outcome |-> "invalid", new_state |-> state, h |-> h]
           ELSE [outcome |-> "ok", new_state |-> execute(state, h.msg), h |-> h]

(* ------------------- the threads that use CACHES ----------------------- *)
Threads == {"a", "b"}

\* a thread outside From and extract_params: found is the Option its latest
\* decode returned
IdleThread == [pc |-> "idle", uuid |-> 0, item |-> CallbackParams_BacklogStop, found |-> {}]

(* ------------------------------- state --------------------------------- *)
VARIABLES
  store,        \* redis: user -> the record under "state:{uid}", or Absent
  yt_tokens,    \* Bot.yt_tokens: the users holding an unexpired tracker credential
  csrf_tokens,  \* Bot.csrf_tokens: CSRF token -> user, "none" for a token not issued
  msgs,         \* per user, the inline keyboards of the bot's messages in the chat
  inflight,     \* the dispatch_update calls between their read and their write
  crashed,      \* a handler panicked and the dispatcher is gone
  last,         \* what the dispatch_update that completed in the latest step did
                \* (NoLast after any other step)
  CACHES,       \* main.rs: the LRU cache, <<uuid, params>> from least to most recent
  minted,       \* main.rs: how many uuids Uuid::new_v4 has produced
  main_kb,      \* main.rs: the uuids on the buttons of the backlog message
  main_down,    \* main.rs: main has returned an Err or panicked
  main_last,    \* main.rs: what the latest dispatch or dispatch_callback did
  evicted,      \* main.rs: the uuids whose entry a put has evicted from CACHES
  lock,         \* the Mutex around CACHES: the thread holding it, or "free"
  thr,          \* per thread using CACHES, the call it is in and what it holds
  tokens,       \* per uuid minted by those threads, the payload its button was
                \* made for and how often a decode has returned it
  enc_item,     \* codec: the CallbackParams value handed to the encoder
  enc_button,   \* codec: the InlineKeyboardButton the encoder returned
  dec_data,     \* codec: cb.data of the callback query, or the text of the message,
                \* handed to BotCommand::try_from ({} is None)
  dec_result,   \* codec: what try_from returned for dec_data
  dec_count,    \* codec: how many times in a row dec_data has been decoded as
                \* callback data (0 after a message)
  bp_params,    \* BacklogParams: the value the paging arithmetic is applied to
  bp_checks,    \* BacklogParams: the build panics on integer overflow
  bp_call       \* BacklogParams: the latest call made on bp_params and its result

\* the variables of the session-driven bot (bot.rs) and of the first dispatcher
\* (main.rs); each program leaves the other's variables alone
bot_vars == <<store, yt_tokens, csrf_tokens, msgs, inflight, crashed, last>>

main_vars == <<CACHES, minted, main_kb, main_down, main_last, evicted>>

\* the variables of the units exercised on their own: the locked cache, the two
\* token codecs and the paging arithmetic
cache_vars == <<lock, thr, tokens>>

codec_vars == <<enc_item, enc_button, dec_data, dec_result, dec_count>>

bp_vars == <<bp_params, bp_checks, bp_call>>

unit_vars == <<cache_vars, codec_vars, bp_vars>>

vars == <<store, yt_tokens, csrf_tokens, msgs, inflight, crashed, last,
          CACHES, minted, main_kb, main_down, main_last, evicted,
          lock, thr, tokens, enc_item, enc_button, dec_data, dec_result, dec_count,
          bp_params, bp_checks, bp_call>>

NoMainLast ==
  [token |-> "none", outcome |-> "none", cleared |-> FALSE, sent |-> {}, has_msg |-> FALSE,
   uuid |-> 0]

NoLast ==
  [uid |-> "none", pre |-> Absent, cmd |-> [kind |-> "None"], outcome |-> "none",
   calls |-> {}, failed |-> FALSE, sent |-> {}, page |-> {}, cred |-> FALSE,
   draft |-> {}]

\* Bot::new, over an empty session store; main.rs before its first update
ProgramInit ==
  /\ store = [u \in Users |-> Absent]
  /\ yt_tokens = {}
  /\ csrf_tokens = [t \in 1..MaxCsrf |-> "none"]
  /\ msgs = [u \in Users |-> [i \in 1..MaxMsgs |-> {}]]
  /\ inflight = {}
  /\ crashed = FALSE
  /\ last = NoLast
  /\ CACHES = <<>>
  /\ minted = 0
  /\ main_kb = {}
  /\ main_down = FALSE
  /\ main_last = NoMainLast
  /\ evicted = {}

\* no thread is using the cache
CacheIdle ==
  /\ lock = "free"
  /\ thr = [t \in Threads |-> IdleThread]
  /\ tokens = <<>>

\* nothing has been handed to a codec
CodecIdle ==
  /\ enc_item = CallbackParams_BacklogStop
  /\ enc_button = NoButton
  /\ dec_data = {}
  /\ dec_result = NoResult
  /\ dec_count = 0

\* the paging arithmetic is not under test: the first page that "/backlog" asks for
ParamsIdle ==
  /\ bp_params = BacklogParams_new(DefaultTop)
  /\ bp_checks = FALSE
  /\ bp_call = NoCall

Init == ProgramInit /\ CacheIdle /\ CodecIdle /\ ParamsIdle

\* Bot::get_state: con.get(key)? fails on a record that does not parse
get_state(uid) ==
  IF store[uid] = Absent THEN Idle
  ELSE IF store[uid] = Corrupt THEN RedisErr
  ELSE store[uid]

\* a shared borrow: calls may overlap
BorrowShared == TRUE

\* dispatch_update and on_auth take &mut self: one of them runs at a time
BorrowFree == inflight = {}

FreeCsrf == {t \in 1..MaxCsrf : csrf_tokens[t] = "none"}

FreeSlots(u) == {i \in 1..MaxMsgs : msgs[u][i] = {}}

(* -------------------- the collaborators' answers ----------------------- *)
\* the pages the tracker may answer for a request at skip
FetchOutcomes(skip) ==
  {[ok |-> FALSE, issues |-> {}]}
    \cup {[ok |-> TRUE, issues |-> s] : s \in (IF skip < BacklogLen THEN IssueSets ELSE {{}})}

\* the create-issue request: answered with the issue, with an error status, or
\* with a success status and a body without "idReadable"
CreateOutcomes == {"ok", "err", "noid"}

UsesFetch(state, cmd) ==
  \/ state.tag = "Idle" /\ cmd.kind = "Backlog"
  \/ state.tag = "InBacklog"
       /\ cmd.kind \in {"BacklogNext", "BacklogPrev", "BacklogVoteForIssue"}

FetchSkip(state, cmd) ==
  IF cmd.kind = "BacklogVoteForIssue" THEN state.skip ELSE cmd.p.skip

UsesSend(state, cmd) ==
  \/ state.tag = "Idle" /\ cmd.kind \in {"Backlog", "Start", "Login", "NewIssue"}
  \/ state.tag = "InBacklog" /\ cmd.kind \in CallbackKinds

IsVote(state, cmd) == state.tag = "InBacklog" /\ cmd.kind = "BacklogVoteForIssue"

IsText(state, cmd, tags) == state.tag \in tags /\ cmd.kind = "Text"

\* the answers that matter to the handler of (state, cmd); the others are fixed
Envs(state, cmd) ==
  [fetch : IF UsesFetch(state, cmd) THEN FetchOutcomes(FetchSkip(state, cmd))
           ELSE {[ok |-> FALSE, issues |-> {}]},
   send : IF UsesSend(state, cmd) THEN BOOLEAN ELSE {TRUE},
   spawn : IF IsVote(state, cmd) THEN BOOLEAN ELSE {TRUE},
   vote : IF IsVote(state, cmd) THEN {"ok", "err"} ELSE {"ok"},
   expire : IF IsVote(state, cmd) THEN BOOLEAN ELSE {FALSE},
   projects : IF IsText(state, cmd, {"NewIssue", "NewIssueSummary"})
              THEN {"err", "noname", "ok"} ELSE {"ok"},
   bundle1 : IF IsText(state, cmd, {"NewIssueSummary", "NewIssueSummaryProject",
                                    "NewIssueSummaryProjectStream"})
             THEN BundleOutcomes ELSE {"ok"},
   bundle2 : IF IsText(state, cmd, {"NewIssueSummaryProject"})
             THEN BundleOutcomes ELSE {"ok"},
   create : IF state.tag = "NewIssueSummaryProjectStreamTypeDesc" /\ cmd.kind = "Save"
            THEN CreateOutcomes ELSE {"ok"}]

\* what the handler's keyboard operation leaves of the user's keyboards
ApplyKb(m, cmd, kbop, spawn_ok) ==
  CASE kbop.op = "new" ->
         IF \E i \in DOMAIN m : m[i] = {}
           THEN [m EXCEPT ![CHOOSE i \in DOMAIN m : m[i] = {}] = kbop.kb]
           ELSE m
    [] kbop.op = "edit" -> [m EXCEPT ![cmd.mid] = kbop.kb]
    [] kbop.op = "clear" -> [m EXCEPT ![cmd.mid] = {}]
    [] kbop.op = "spawn_clear" /\ spawn_ok -> [m EXCEPT ![cmd.mid] = {}]
    [] OTHER -> m

(* ------------------------------ actions -------------------------------- *)
\* dispatch_update up to its first await, for a text message: the state is read
\* and the message normalised
DispatchMessage(u, data) ==
  /\ ~crashed
  /\ BorrowFree
  /\ get_state(u) # RedisErr
  /\ data = "/login" => FreeCsrf # {}
  /\ data = "/backlog" => FreeSlots(u) # {}
  /\ inflight' = inflight \cup
       {[uid |-> u, state |-> get_state(u), cmd |-> BotCommand_from_message(data)]}
  /\ last' = NoLast
  /\ UNCHANGED <<store, yt_tokens, csrf_tokens, msgs, crashed>>
  /\ UNCHANGED <<main_vars, unit_vars>>

\* the same for a callback query whose data is that of a button the user was shown
DispatchCallback(u, mid, button, has_msg) ==
  /\ ~crashed
  /\ BorrowFree
  /\ get_state(u) # RedisErr
  /\ button \in msgs[u][mid]
  /\ inflight' = inflight \cup
       {[uid |-> u, state |-> get_state(u),
         cmd |-> BotCommand_from_callback(button, IF has_msg THEN mid ELSE 0, has_msg)]}
  /\ last' = NoLast
  /\ UNCHANGED <<store, yt_tokens, csrf_tokens, msgs, crashed>>
  /\ UNCHANGED <<main_vars, unit_vars>>

\* the ways dispatch_update returns Err before handle_command: an update that is
\* neither a message nor a callback query, a record that cannot be read, a
\* message that is not text, callback data that is no CallbackParams, a callback
\* query without data
RejectedKinds ==
  {"other_update", "unreadable_record", "non_text_message", "bad_callback_data",
   "no_callback_data"}

\* a rejected update answered by resetting the user's session
DispatchRejected_resets(u, kind) ==
  /\ ~crashed
  /\ BorrowFree
  /\ kind = "other_update" \/ ((kind = "unreadable_record") <=> (get_state(u) = RedisErr))
  /\ last' = [NoLast EXCEPT !.uid = u, !.pre = get_state(u), !.cmd = [kind |-> kind],
                            !.outcome = "rejected"]
  /\ store' = [store EXCEPT ![u] = Idle]
  /\ UNCHANGED <<yt_tokens, csrf_tokens, msgs, inflight, crashed>>
  /\ UNCHANGED <<main_vars, unit_vars>>

\* an update get_state_by_update or try_into rejects: dispatch_update returns Err
DispatchRejected(u, kind) ==
  /\ ~crashed
  /\ BorrowFree
  /\ kind = "other_update" \/ ((kind = "unreadable_record") <=> (get_state(u) = RedisErr))
  /\ last' = [NoLast EXCEPT !.uid = u, !.pre = get_state(u), !.cmd = [kind |-> kind],
                            !.outcome = "rejected"]
  /\ UNCHANGED <<store, yt_tokens, csrf_tokens, msgs, inflight, crashed>>
  /\ UNCHANGED <<main_vars, unit_vars>>

\* the rest of dispatch_update: the handler runs, execute is applied, the state is
\* written when handle_command returned Ok
DispatchFinish(c) ==
  /\ ~crashed
  /\ c \in inflight
  /\ \E env \in Envs(c.state, c.cmd) :
       LET cred == c.uid \in yt_tokens
           r == handle_command(c.state, c.cmd, cred, env)
       IN /\ store' = IF r.outcome = "ok"
                        THEN [store EXCEPT ![c.uid] = r.new_state]
                        ELSE store
          /\ msgs' = [msgs EXCEPT ![c.uid] = ApplyKb(@, c.cmd, r.h.kbop, env.spawn)]
          /\ csrf_tokens' = IF r.h.login /\ FreeCsrf # {}
                              THEN [csrf_tokens EXCEPT
                                      ![CHOOSE t \in FreeCsrf : TRUE] = c.uid]
                              ELSE csrf_tokens
          /\ yt_tokens' = IF r.h.expired THEN yt_tokens \ {c.uid} ELSE yt_tokens
          /\ crashed' = (r.outcome = "panic")
          /\ last' = [uid |-> c.uid, pre |-> c.state, cmd |-> c.cmd,
                      outcome |-> r.outcome, calls |-> r.h.calls, failed |-> r.h.failed,
                      sent |-> r.h.sent, page |-> r.h.page, cred |-> cred,
                      draft |-> r.h.draft]
  /\ inflight' = inflight \ {c}
  /\ UNCHANGED <<main_vars, unit_vars>>

\* on_auth through a shared reference: it may run while a dispatch is in flight
OnAuth_unguarded(tok, me_ok) ==
  /\ ~crashed
  /\ yt_tokens' = IF tok # 0 /\ csrf_tokens[tok] # "none" /\ me_ok
                    THEN yt_tokens \cup {csrf_tokens[tok]}
                    ELSE yt_tokens
  /\ last' = NoLast
  /\ UNCHANGED <<store, csrf_tokens, msgs, inflight, crashed>>
  /\ UNCHANGED <<main_vars, unit_vars>>

\* on_auth that also starts the session of the user over
OnAuth_resets(tok, me_ok) ==
  /\ ~crashed
  /\ BorrowFree
  /\ yt_tokens' = IF tok # 0 /\ csrf_tokens[tok] # "none" /\ me_ok
                    THEN yt_tokens \cup {csrf_tokens[tok]}
                    ELSE yt_tokens
  /\ store' = IF tok # 0 /\ csrf_tokens[tok] # "none" /\ me_ok
                THEN [store EXCEPT ![csrf_tokens[tok]] = Idle]
                ELSE store
  /\ last' = NoLast
  /\ UNCHANGED <<csrf_tokens, msgs, inflight, crashed>>
  /\ UNCHANGED <<main_vars, unit_vars>>

\* Bot::on_auth for a callback carrying CSRF token tok (0: one never issued);
\* me_ok is the outcome of the users/me request
OnAuth(tok, me_ok) ==
  /\ ~crashed
  /\ BorrowFree
  /\ yt_tokens' = IF tok # 0 /\ csrf_tokens[tok] # "none" /\ me_ok
                    THEN yt_tokens \cup {csrf_tokens[tok]}
                    ELSE yt_tokens
  /\ last' = NoLast
  /\ UNCHANGED <<store, csrf_tokens, msgs, inflight, crashed>>
  /\ UNCHANGED <<main_vars, unit_vars>>

\* the time-to-live of a cached credential runs out
Expire(u) ==
  /\ u \in yt_tokens
  /\ yt_tokens' = yt_tokens \ {u}
  /\ last' = NoLast
  /\ UNCHANGED <<store, csrf_tokens, msgs, inflight, crashed>>
  /\ UNCHANGED <<main_vars, unit_vars>>

\* the record of a user is left unreadable by something other than the bot (a
\* build with another UserState layout, a write by another client), while no
\* dispatch is between its read and its write
CorruptRecord(u) ==
  /\ inflight = {}
  /\ store[u] \notin {Absent, Corrupt}
  /\ store' = [store EXCEPT ![u] = Corrupt]
  /\ last' = NoLast
  /\ UNCHANGED <<yt_tokens, csrf_tokens, msgs, inflight, crashed>>
  /\ UNCHANGED <<main_vars, unit_vars>>

\* the process is started again after a panic: Bot::new over the same redis
Restart ==
  /\ crashed
  /\ crashed' = FALSE
  /\ yt_tokens' = {}
  /\ csrf_tokens' = [t \in 1..MaxCsrf |-> "none"]
  /\ inflight' = {}
  /\ last' = NoLast
  /\ UNCHANGED <<store, msgs>>
  /\ UNCHANGED <<main_vars, unit_vars>>

Buttons == UNION {UNION {msgs[u][i] : i \in 1..MaxMsgs} : u \in Users}

Next ==
  \/ \E u \in Senders, data \in Keywords \cup Texts : DispatchMessage(u, data)
  \/ \E u \in Senders, mid \in 1..MaxMsgs, button \in Buttons, has_msg \in BOOLEAN :
       DispatchCallback(u, mid, button, has_msg)
  \/ \E u \in Senders, kind \in RejectedKinds : DispatchRejected(u, kind)
  \/ \E c \in inflight : DispatchFinish(c)
  \/ \E tok \in 0..MaxCsrf, me_ok \in BOOLEAN : OnAuth(tok, me_ok)
  \/ \E u \in Users : Expire(u)
  \/ \E u \in Senders : CorruptRecord(u)
  \/ Restart

Spec == Init /\ [][Next]_vars

(* ------------------ main.rs: the first dispatcher ---------------------- *)
\* main.rs keeps the parameters of a button in CACHES under a fresh uuid and puts
\* the uuid on the button; BacklogParams and the keyboard layout are those of
\* commands.rs and bot.rs
CallbackParams_Invalid == [t |-> "Invalid"]

RECURSIVE SetToSeq(_)
SetToSeq(S) ==
  IF S = {} THEN <<>>
  ELSE LET x == CHOOSE y \in S : TRUE IN <<x>> \o SetToSeq(S \ {x})

\* main.rs backlog_keyboard: the buttons it creates, in the order it creates
\* them (each creation puts an entry in CACHES), and the positions of those the
\* keyboard shows (row.pop() drops one on an empty page)
main_backlog_keyboard(issues, params) ==
  LET iss == SetToSeq(issues)
      votes == [i \in 1..Len(iss) |-> CallbackParams_VoteForIssue(iss[i].id, iss[i].has_vote)]
      prev == BacklogParams_prev(params)
      row1 == IF prev # {}
                THEN <<CallbackParams_BacklogStop,
                       CallbackParams_BacklogPrev(CHOOSE q \in prev : TRUE)>>
                ELSE <<CallbackParams_BacklogStop>>
      prevprev == UNION {BacklogParams_prev(q) : q \in prev}
      tail == IF issues # {}
                THEN <<CallbackParams_BacklogNext(BacklogParams_next(params))>>
                ELSE IF prevprev # {}
                       THEN <<CallbackParams_BacklogPrev(CHOOSE q \in prevprev : TRUE)>>
                       ELSE <<>>
      created == votes \o row1 \o tail
      dropped == IF issues = {} THEN {Len(votes) + Len(row1)} ELSE {}
  IN [created |-> created, shown |-> (1..Len(created)) \ dropped]

\* impl From<CallbackParams> for InlineKeyboardButton, for each button created:
\* map.put(uuid, item) under the next uuids; a put into a full cache evicts the
\* least recently used entry
CACHES_put(cache, mint, created) ==
  LET all == cache \o [i \in 1..Len(created) |-> <<mint + i, created[i]>>]
  IN IF Len(all) > CacheCap THEN SubSeq(all, Len(all) - CacheCap + 1, Len(all)) ELSE all

\* a lookup that leaves the entry in the cache (LruCache::get in place of pop)
CACHES_pop_keeps(cache, uuid) ==
  [value |-> {cache[i][2] : i \in {j \in 1..Len(cache) : cache[j][1] = uuid}},
   cache |-> cache]

\* cache.pop(&uuid): the entry's value as an Option and the cache without it
CACHES_pop(cache, uuid) ==
  LET Other(e) == e[1] # uuid
  IN [value |-> {cache[i][2] : i \in {j \in 1..Len(cache) : cache[j][1] = uuid}},
      cache |-> SelectSeq(cache, Other)]

\* the callback data a query may carry: none, a string that is no uuid, a uuid
NoData == [k |-> "none"]

Malformed == [k |-> "malformed"]

UuidData(n) == [k |-> "uuid", id |-> n]

\* extract_params; params is the Option returned
extract_params(cache, data) ==
  CASE data = NoData -> [params |-> {}, cache |-> cache, token |-> "nodata"]
    [] data = Malformed ->
         [params |-> {CallbackParams_Invalid}, cache |-> cache, token |-> "malformed"]
    [] OTHER ->
         LET popped == CACHES_pop(cache, data.id)
         IN [params |-> popped.value, cache |-> popped.cache,
             token |-> IF popped.value = {} THEN "notfound" ELSE "found"]

MainRes(outcome, cache, mint, kb, token, cleared, sent) ==
  [outcome |-> outcome, cache |-> cache, minted |-> mint, kb |-> kb, token |-> token,
   cleared |-> cleared, sent |-> sent]

\* the keyboard of a page is built (its buttons enter the cache) and sent with
\* the page; new is TRUE for a new message, FALSE for an edit of the message
main_send_page(cache, mint, kb, token, issues, params, send_ok) ==
  LET k == main_backlog_keyboard(issues, params)
      cache2 == CACHES_put(cache, mint, k.created)
      mint2 == mint + Len(k.created)
  IN IF send_ok
       THEN MainRes("ok", cache2, mint2, {mint + i : i \in k.shown}, token, FALSE, {"page"})
       ELSE MainRes("exit", cache2, mint2, kb, token, FALSE, {})

\* list_backlog: the first page, top 10
list_backlog(cache, mint, kb, fetch, send_ok) ==
  IF fetch.ok
    THEN main_send_page(cache, mint, kb, "message", fetch.issues,
                        BacklogParams_new(MainTop), send_ok)
    ELSE IF send_ok
      THEN MainRes("ok", cache, mint, kb, "message", FALSE, {"error"})
      ELSE MainRes("exit", cache, mint, kb, "message", FALSE, {})

\* dispatch: "/backlog" lists the backlog, any other text is only printed
dispatch(cache, mint, kb, data, fetch, send_ok) ==
  IF data = "/backlog"
    THEN list_backlog(cache, mint, kb, fetch, send_ok)
    ELSE MainRes("ok", cache, mint, kb, "message", FALSE, {})

\* dispatch_callback: outcome "exit" is an Err returned through main, "panic" an
\* unwrap of a callback query without its message
dispatch_callback(cache0, mint, kb, data, has_msg, fetch, send_ok) ==
  LET ex == extract_params(cache0, data)
      cache == ex.cache
      panic == MainRes("panic", cache, mint, kb, ex.token, FALSE, {})
      exit == MainRes("exit", cache, mint, kb, ex.token, FALSE, {})
      reply(text) == IF ~has_msg THEN panic
                     ELSE IF send_ok
                       THEN MainRes("ok", cache, mint, kb, ex.token, FALSE, {text})
                       ELSE exit
      clear == IF ~has_msg THEN panic
               ELSE IF send_ok
                 THEN MainRes("ok", cache, mint, {}, ex.token, TRUE, {})
                 ELSE exit
  IN IF ex.params = {}
       THEN clear
       ELSE LET p == CHOOSE q \in ex.params : TRUE
            IN CASE p.t = "Invalid" -> reply("error")
                 [] p.t = "vi" -> reply("vote")
                 [] p.t = "bs" -> clear
                 [] OTHER ->
                      IF ~fetch.ok THEN reply("error")
                      ELSE IF ~has_msg THEN panic
                      ELSE main_send_page(cache, mint, kb, ex.token, fetch.issues, p.p,
                                          send_ok)

\* the uuids a cache holds
CachedUuids(cache) == {cache[j][1] : j \in 1..Len(cache)}

\* the uuid the callback data names (0 when it names none)
DataUuid(data) == IF data \in {NoData, Malformed} THEN 0 ELSE data.id

\* uuid is the one the step handed to cache.pop; an entry that left the cache
\* without being popped was evicted by a put
MainApply(r, uuid, has_msg) ==
  /\ r.minted <= MaxUuid
  /\ CACHES' = r.cache
  /\ minted' = r.minted
  /\ main_kb' = r.kb
  /\ main_down' = (r.outcome # "ok")
  /\ main_last' = [token |-> r.token, outcome |-> r.outcome, cleared |-> r.cleared,
                   sent |-> r.sent, has_msg |-> has_msg, uuid |-> uuid]
  /\ evicted' = evicted \cup (((CachedUuids(CACHES) \cup (minted + 1..r.minted))
                                 \ CachedUuids(r.cache)) \ {uuid})
  /\ UNCHANGED <<bot_vars, unit_vars>>

\* main's loop takes a text message; "/backlog" is sent while no backlog message
\* with a keyboard is kept
MainDispatch(data, fetch, send_ok) ==
  /\ ~main_down
  /\ data = "/backlog" => main_kb = {}
  /\ MainApply(dispatch(CACHES, minted, main_kb, data, fetch, send_ok), 0, TRUE)

\* the pages the tracker may answer for the button the data names
MainFetches(data) ==
  LET hit == IF data \in {NoData, Malformed} THEN {}
             ELSE {p \in CACHES_pop(CACHES, data.id).value : p.t \in {"bn", "bp"}}
  IN IF hit = {} THEN {[ok |-> FALSE, issues |-> {}]}
     ELSE UNION {FetchOutcomes(p.p.skip) : p \in hit}

\* main's loop takes a callback query
MainCallback(data, has_msg, fetch, send_ok) ==
  /\ ~main_down
  /\ fetch \in MainFetches(data)
  /\ MainApply(dispatch_callback(CACHES, minted, main_kb, data, has_msg, fetch, send_ok),
               DataUuid(data), has_msg)

\* the process is started again: the cache is empty, the chat keeps its keyboard
MainRestart ==
  /\ main_down
  /\ main_down' = FALSE
  /\ CACHES' = <<>>
  /\ main_last' = NoMainLast
  /\ UNCHANGED <<minted, main_kb, evicted>>
  /\ UNCHANGED <<bot_vars, unit_vars>>

MainNext ==
  \/ \E data \in {"/backlog", "t1"}, fetch \in FetchOutcomes(0), send_ok \in BOOLEAN :
       MainDispatch(data, fetch, send_ok)
  \/ \E data \in {NoData, Malformed} \cup {UuidData(n) : n \in 0..minted},
        has_msg \in BOOLEAN,
        fetch \in FetchOutcomes(0) \cup FetchOutcomes(MainTop), send_ok \in BOOLEAN :
       MainCallback(data, has_msg, fetch, send_ok)
  \/ MainRestart

MainSpec == Init /\ [][MainNext]_vars

(* --------------- main.rs: CACHES used from several threads ------------- *)
\* CACHES is a process-wide static behind a Mutex: From<CallbackParams> and
\* extract_params may run on any thread. A call is split where it takes the lock
\* and where LruCache::pop looks the key up and unlinks the entry.

\* a cache without its lock
CACHES_lock_absent(t) == TRUE

\* CACHES.lock().unwrap(): the call returns once no thread holds the lock
CACHES_lock(t) == lock = "free"

\* the payloads the threads make buttons for
CacheItems == {CallbackParams_BacklogStop, CallbackParams_BacklogNext(BacklogParams_new(MainTop))}

\* From<CallbackParams>: Uuid::new_v4() and CACHES.lock()
EncodeLock(t, item) ==
  /\ thr[t].pc = "idle"
  /\ minted < MaxTokens
  /\ CACHES_lock(t)
  /\ lock' = t
  /\ minted' = minted + 1
  /\ thr' = [thr EXCEPT ![t] = [pc |-> "put", uuid |-> minted + 1, item |-> item,
                                 found |-> {}]]
  /\ tokens' = Append(tokens, [p |-> item, decodes |-> 0, evicted |-> FALSE])
  /\ UNCHANGED <<CACHES, main_kb, main_down, main_last, evicted>>
  /\ UNCHANGED <<bot_vars, codec_vars, bp_vars>>

\* From<CallbackParams>: map.put(uuid, item.clone()); the guard is dropped and the
\* button with the uuid is returned
EncodePut(t) ==
  /\ thr[t].pc = "put"
  /\ CACHES' = CACHES_put(CACHES, thr[t].uuid - 1, <<thr[t].item>>)
  /\ lock' = "free"
  /\ thr' = [thr EXCEPT ![t] = IdleThread]
  /\ tokens' = [n \in 1..Len(tokens) |->
                  [tokens[n] EXCEPT !.evicted = @ \/ (n \in CachedUuids(CACHES)
                                                      /\ n \notin CachedUuids(CACHES'))]]
  /\ UNCHANGED <<minted, main_kb, main_down, main_last, evicted>>
  /\ UNCHANGED <<bot_vars, codec_vars, bp_vars>>

\* the uuids of the buttons that have been returned
Returned_uuids == {n \in 1..minted : \A t \in Threads : ~(thr[t].pc = "put" /\ thr[t].uuid = n)}

\* extract_params for data that is no uuid, or absent: the cache is not used
ExtractNoUuid(t, data) ==
  /\ thr[t].pc = "idle"
  /\ data \in {NoData, Malformed}
  /\ thr' = [thr EXCEPT ![t] = [pc |-> "idle", uuid |-> 0, item |-> CallbackParams_BacklogStop,
                                 found |-> extract_params(CACHES, data).params]]
  /\ UNCHANGED <<lock, tokens>>
  /\ UNCHANGED <<main_vars, bot_vars, codec_vars, bp_vars>>

\* extract_params for the uuid n: CACHES.lock()
ExtractLock(t, n) ==
  /\ thr[t].pc = "idle"
  /\ CACHES_lock(t)
  /\ lock' = t
  /\ thr' = [thr EXCEPT ![t] = [pc |-> "pop", uuid |-> n, item |-> CallbackParams_BacklogStop,
                                 found |-> {}]]
  /\ UNCHANGED tokens
  /\ UNCHANGED <<main_vars, bot_vars, codec_vars, bp_vars>>

\* cache.pop(&uuid): the key is looked up
ExtractLookup(t) ==
  /\ thr[t].pc = "pop"
  /\ thr' = [thr EXCEPT ![t].pc = "unlink",
                         ![t].found = CACHES_pop(CACHES, thr[t].uuid).value]
  /\ UNCHANGED <<lock, tokens>>
  /\ UNCHANGED <<main_vars, bot_vars, codec_vars, bp_vars>>

\* cache.pop(&uuid): the entry is unlinked; the guard is dropped and the Option
\* is returned
ExtractUnlink(t) ==
  /\ thr[t].pc = "unlink"
  /\ CACHES' = CACHES_pop(CACHES, thr[t].uuid).cache
  /\ lock' = "free"
  /\ thr' = [thr EXCEPT ![t].pc = "idle"]
  /\ tokens' = [n \in 1..Len(tokens) |->
                  IF n = thr[t].uuid /\ thr[t].found # {}
                    THEN [tokens[n] EXCEPT !.decodes = @ + 1]
                    ELSE tokens[n]]
  /\ UNCHANGED <<minted, main_kb, main_down, main_last, evicted>>
  /\ UNCHANGED <<bot_vars, codec_vars, bp_vars>>

CacheNext ==
  \/ \E t \in Threads, item \in CacheItems : EncodeLock(t, item)
  \/ \E t \in Threads : EncodePut(t)
  \/ \E t \in Threads, data \in {NoData, Malformed} : ExtractNoUuid(t, data)
  \/ \E t \in Threads, n \in {0} \cup Returned_uuids : ExtractLock(t, n)
  \/ \E t \in Threads : ExtractLookup(t)
  \/ \E t \in Threads : ExtractUnlink(t)

CacheSpec == Init /\ [][CacheNext]_vars

(* ------------------- the token codecs on their own --------------------- *)
\* Uuid::to_string: 32 hexadecimal digits in groups of 8-4-4-4-12; the uuids of
\* the model are the version 4 uuids whose last digit is n
HexDigit(n) == SubSeq("0123456789abcdef", n + 1, n + 1)

Uuid_to_string(n) ==
  "00000000-0000-4000-8000-00000000000" \o HexDigit(n % 16)

\* impl From<CallbackParams> for InlineKeyboardButton (main.rs): the button for
\* item under the next uuid, and the cache after map.put
main_into_button(cache, mint, item) ==
  IF item = CallbackParams_Invalid
    THEN [button |-> ButtonPanic, cache |-> cache, minted |-> mint]
    ELSE [button |-> Button(IF item.t = "vi" THEN item.id ELSE button_text(item),
                            Uuid_to_string(mint + 1)),
          cache |-> CACHES_put(cache, mint, <<item>>), minted |-> mint + 1]

\* an issue id of n characters
RECURSIVE IdOfLen(_)
IdOfLen(n) == IF n = 0 THEN "" ELSE "X" \o IdOfLen(n - 1)

\* the issue ids handed to the encoder: a usual one, one with a quote and a
\* backslash in it, and long ones around the length where the token reaches the
\* limit
CodecIds == {"I1", "a\"\\b"} \cup {IdOfLen(n) : n \in MaxIdLen - 3..MaxIdLen}

\* the i32 values handed to the encoder as top and skip
CodecInts == {I32Min, -1, 0, 3, 4, 5, I32Max}

CodecParams == [top : CodecInts, skip : CodecInts]

CodecItems ==
  {CallbackParams_BacklogStop}
    \cup {CallbackParams_BacklogNext(p) : p \in CodecParams}
    \cup {CallbackParams_BacklogPrev(p) : p \in CodecParams}
    \cup {CallbackParams_VoteForIssue(id, v) : id \in CodecIds, v \in BOOLEAN}

\* texts that are no JSON object: empty, a word, cut short, followed by more
\* text, a number with a leading zero, a token of the other codec
MalformedData ==
  {"", "x", "{", "{\"_t\":\"bn\"", "{\"_t\":\"bs\"}x", "{\"_t\":\"vi\",\"i\":\"I1\",\"v\":tru",
   "{\"_t\":\"bn\",\"t\":05,\"s\":0}", Uuid_to_string(1)}

\* JSON objects whose tag names no variant
UnknownVariantData == {"{\"_t\":\"zz\"}", "{\"_t\":\"Invalid\",\"t\":5,\"s\":0}"}

\* JSON that is no CallbackParams for another reason: no tag, a field missing,
\* a number that is no i32, a text that is no object
OtherBadData ==
  {"{\"t\":5,\"s\":0}", "{\"_t\":\"bn\",\"t\":5}", "{\"_t\":\"bn\",\"t\":2147483648,\"s\":0}",
   "5"}

\* tokens no button of the bot carries: a page of 3 from the offset 4, the
\* members in another order with one that is no field
ForeignData == {"{\"_t\":\"bn\",\"t\":3,\"s\":4}", "{\"s\":10,\"x\":\"y\",\"t\":5,\"_t\":\"bp\"}"}

CodecData == MalformedData \cup UnknownVariantData \cup OtherBadData \cup ForeignData

\* a value is handed to an encoder
CodecInit ==
  /\ ProgramInit /\ CacheIdle /\ ParamsIdle
  /\ enc_item \in CodecItems
  /\ enc_button = NoButton
  /\ dec_data = {}
  /\ dec_result = NoResult
  /\ dec_count = 0

\* commands.rs: enc_item.into()
Encode ==
  /\ enc_button = NoButton
  /\ enc_button' = CallbackParams_into_button(enc_item)
  /\ UNCHANGED <<enc_item, dec_data, dec_result, dec_count>>
  /\ UNCHANGED <<bot_vars, main_vars, cache_vars, bp_vars>>

\* main.rs: enc_item.into()
EncodeOpaque ==
  LET r == main_into_button(CACHES, minted, enc_item)
  IN /\ enc_button = NoButton
     /\ minted < MaxUuid
     /\ enc_button' = r.button
     /\ CACHES' = r.cache
     /\ minted' = r.minted
     /\ UNCHANGED <<enc_item, dec_data, dec_result, dec_count>>
     /\ UNCHANGED <<main_kb, main_down, main_last, evicted>>
     /\ UNCHANGED <<bot_vars, cache_vars, bp_vars>>

\* commands.rs: BotCommand::try_from(cb) for a callback query that carries data
Decode(data) ==
  /\ dec_data' = data
  /\ dec_result' = BotCommand_try_from_callback(data, 1, TRUE)
  /\ dec_count' = IF data = dec_data /\ dec_count > 0
                    THEN (IF dec_count < MaxDecodes THEN dec_count + 1 ELSE dec_count)
                    ELSE 1
  /\ UNCHANGED <<enc_item, enc_button>>
  /\ UNCHANGED <<bot_vars, main_vars, cache_vars, bp_vars>>

\* the texts of the messages handed to the normalisation: the keywords, texts
\* that differ from a keyword by a character more or less, and free texts
MessageTexts ==
  Keywords
    \cup UNION {{k \o " ", " " \o k, k \o "@bot", SubSeq(k, 2, Len(k)),
                 SubSeq(k, 1, Len(k) - 1)} : k \in Keywords}
    \cup {"", "/", "t1", "see /start", "/START"}

\* commands.rs: BotCommand::try_from(msg) for a message; dec_count = 0 marks the
\* result as that of a message
Normalize(text) ==
  /\ dec_data' = text
  /\ dec_result' = BotCommand_try_from_message(text)
  /\ dec_count' = 0
  /\ UNCHANGED <<enc_item, enc_button>>
  /\ UNCHANGED <<bot_vars, main_vars, cache_vars, bp_vars>>

\* the data of the button that was made, as an Option
ButtonData == IF enc_button.made THEN {{enc_button.data}} ELSE {}

CodecNext ==
  \/ Encode
  \/ EncodeOpaque
  \/ \E data \in {{}} \cup {{d} : d \in CodecData} \cup ButtonData : Decode(data)
  \/ \E text \in {{}} \cup {{d} : d \in MessageTexts} : Normalize(text)

CodecSpec == CodecInit /\ [][CodecNext]_vars

(* ------------------- the paging arithmetic on its own ------------------ *)
\* the i32 values top and skip are drawn from: both ends of the range and the
\* page sizes in use
I32Samples ==
  {I32Min, I32Min + 1, -MainTop, -DefaultTop, -1, 0, 1, DefaultTop, MainTop,
   I32Max - DefaultTop, I32Max - 1, I32Max}

\* a BacklogParams value, in a build with or without overflow checks
ParamsInit ==
  /\ ProgramInit /\ CacheIdle /\ CodecIdle
  /\ bp_params \in [top : I32Samples, skip : I32Samples]
  /\ bp_checks \in BOOLEAN
  /\ bp_call = NoCall

Call(fn, result) ==
  /\ bp_call' = [fn |-> fn, result |-> result]
  /\ UNCHANGED <<bp_params, bp_checks>>
  /\ UNCHANGED <<bot_vars, main_vars, cache_vars, codec_vars>>

\* BacklogParams::new(top).prev() for the top of bp_params
CallNewPrev == Call("new.prev", prev_call(BacklogParams_new(bp_params.top), bp_checks))

\* bp_params.next()
CallNext == Call("next", next_call(bp_params, bp_checks))

\* bp_params.prev()
CallPrev == Call("prev", prev_call(bp_params, bp_checks))

\* bp_params.next().prev()
CallNextPrev == Call("next.prev", next_prev_call(bp_params, bp_checks))

\* backlog_keyboard(&issues, &bp_params)
CallKeyboard(issues) == Call("keyboard", keyboard_call(issues, bp_params, bp_checks))

ParamsNext ==
  \/ CallNewPrev
  \/ CallNext
  \/ CallPrev
  \/ CallNextPrev
  \/ \E issues \in IssueSets : CallKeyboard(issues)

ParamsSpec == ParamsInit /\ [][ParamsNext]_vars

(* ------------------------------ the claims ----------------------------- *)
\* the latest step completed a dispatch_update that reached handle_command
Handled == last.outcome \in {"ok", "invalid", "error", "panic"}

\* the state get_state gives for the user of the dispatch that just completed
Post == get_state(last.uid)

PreParams == [top |-> last.pre.top, skip |-> last.pre.skip]

\* C1: for every pair of a session state and a command, handle_command returns
\* a defined next state or the "Invalid transition" error (or a propagated
\* collaborator error); no pair ends in an unhandled failure (a panic).
C1_EngineTotality ==
  Handled =>
    /\ last.outcome # "panic"
    /\ last.outcome = "ok" => Post.tag \in StateTags

\* C2: no user's persisted session record is ever the Error sentinel.
C2_ErrorNeverPersisted == \A u \in Users : store[u] # Error

\* C2 witness: execute gave Error for the dispatch that just completed, and the
\* user's record is still the state read before it.
C2_Witness ==
  /\ last.outcome = "invalid"
  /\ last.pre.tag = "InBacklog"
  /\ store[last.uid] = last.pre

\* C3: whenever a collaborator call fails while an event is handled, the user
\* is sent a visible error message and the store keeps the state read before.
C3_FailureSurfaced ==
  (Handled /\ last.failed) => ("error" \in last.sent /\ Post = last.pre)

\* C4: dispatch cycles of one user never overlap, and a cycle in progress
\* works on the state the store holds now (its read is not stale).
C4_Serialized ==
  /\ \A c1 \in inflight, c2 \in inflight : c1.uid = c2.uid => c1 = c2
  /\ \A c \in inflight : c.state = get_state(c.uid)

\* C4 witness: a cycle is in progress on a state an earlier cycle of the same
\* user wrote.
C4_Witness == \E c \in inflight : c.state.tag = "InBacklog" /\ store[c.uid] = c.state

\* C5: in InBacklog{t,s}, a BacklogNext or BacklogPrev carrying p whose page
\* was fetched and rendered leaves the persisted state InBacklog{p.top,p.skip}.
C5_PagingFollowsParams ==
  (Handled /\ last.pre.tag = "InBacklog"
     /\ last.cmd.kind \in {"BacklogNext", "BacklogPrev"} /\ last.page # {})
    => Post = InBacklog(last.cmd.p.top, last.cmd.p.skip)

IsVoteInBacklog ==
  Handled /\ last.pre.tag = "InBacklog" /\ last.cmd.kind = "BacklogVoteForIssue"

\* C6 as claimed: in InBacklog{t,s} a VoteForIssue leaves the persisted state
\* InBacklog{t,s} in every outcome, and a page re-rendered is the one at {t,s}.
C6_VoteKeepsState ==
  IsVoteInBacklog => (Post = last.pre /\ last.page \subseteq {PreParams})

\* C6 amended: the state stays InBacklog{t,s} whenever the user holds a
\* credential when the vote is handled (the vote succeeds or fails) and the
\* page re-rendered is the one at {t,s}; without a credential the dispatch
\* that completes stores Idle.
C6_VoteKeepsStateWithCredential ==
  IsVoteInBacklog =>
    /\ (last.cred \/ last.outcome = "panic") => Post = last.pre
    /\ last.page \subseteq {PreParams}
    /\ (~last.cred /\ last.outcome # "panic") => Post = Idle

\* C6 witness: a vote succeeded on a page past the first and the page was
\* rendered again.
C6_Witness ==
  IsVoteInBacklog /\ "vote" \in last.calls /\ last.page # {} /\ last.pre.skip > 0

IsIdleCmd(kind) == Handled /\ last.pre = Idle /\ last.cmd.kind = kind

\* C7 as claimed: in Idle, each of Start, Login and NewIssueCmd leaves the
\* state Idle.
C7_IdleCommandsKeepIdle ==
  (IsIdleCmd("Start") \/ IsIdleCmd("Login") \/ IsIdleCmd("NewIssue")) => Post = Idle

\* C7 amended: in Idle, Start and Login leave the state Idle and, when their
\* send succeeds, emit the greeting and the auth link; NewIssueCmd whose
\* prompt for a summary is sent moves the user to NewIssue, and leaves Idle
\* only when the send fails.
C7_IdleCommands ==
  /\ IsIdleCmd("Start") =>
       (Post = Idle /\ (last.outcome = "ok" <=> "greeting" \in last.sent))
  /\ IsIdleCmd("Login") =>
       (Post = Idle /\ (last.outcome = "ok" <=> "auth_link" \in last.sent))
  /\ IsIdleCmd("NewIssue") =>
       /\ last.outcome = "ok" <=> "prompt_summary" \in last.sent
       /\ Post = IF last.outcome = "ok" THEN NewIssue ELSE Idle

\* C7 witness: NewIssueCmd was handled in Idle and its prompt was sent.
C7_Witness == IsIdleCmd("NewIssue") /\ "prompt_summary" \in last.sent

\* C8: in Idle, a Backlog(p) whose page was fetched and rendered moves the
\* user to InBacklog{p.top,p.skip}; for "/backlog" that is InBacklog{5,0}.
C8_BacklogStarts ==
  (IsIdleCmd("Backlog") /\ last.page # {}) =>
    /\ Post = InBacklog(last.cmd.p.top, last.cmd.p.skip)
    /\ last.cmd = BotCommand_from_message("/backlog") => Post = InBacklog(5, 0)

\* C8 witness: "/backlog" was handled in Idle and its page rendered.
C8_Witness ==
  IsIdleCmd("Backlog") /\ last.page # {} /\ last.cmd = BotCommand_from_message("/backlog")

IsStopInBacklog ==
  Handled /\ last.pre.tag = "InBacklog" /\ last.cmd.kind = "BacklogStop"

\* C9 as claimed: in InBacklog{t,s} a BacklogStop pressed on the backlog
\* message moves the user to Idle and clears that message's inline keyboard.
C9_StopGoesIdle ==
  (IsStopInBacklog /\ last.cmd.has_msg) =>
    /\ Post = Idle
    /\ msgs[last.uid][last.cmd.mid] = {}

\* C9 amended: a BacklogStop whose keyboard-clearing edit is delivered moves
\* the user to Idle with that keyboard cleared; when the edit fails, or the
\* handler panics on a callback without its message, the state stays
\* InBacklog{t,s}.
C9_StopGoesIdleWhenCleared ==
  IsStopInBacklog =>
    IF last.outcome = "ok"
      THEN Post = Idle /\ "send" \in last.calls /\ msgs[last.uid][last.cmd.mid] = {}
      ELSE Post = last.pre /\ (last.failed \/ last.outcome = "panic")

\* C9 witness: a BacklogStop was handled past the first page and stored Idle.
C9_Witness == IsStopInBacklog /\ last.outcome = "ok" /\ last.pre.skip > 0

\* the (state, command) pairs the handlers have no arm for
NoRule(state, cmd) ==
  \/ state.tag = "Idle" /\ cmd.kind \notin {"Backlog", "Start", "Login", "NewIssue"}
  \/ state.tag = "InBacklog" /\ cmd.kind \notin CallbackKinds
  \/ state.tag \in NewIssueTags \ {"NewIssueSummaryProjectStreamTypeDesc"}
       /\ cmd.kind \notin {"Text", "Cancel"}
  \/ state.tag = "NewIssueSummaryProjectStreamTypeDesc"
       /\ cmd.kind \notin {"Save", "Cancel"}

\* C10: a command the current state has no rule for leaves the persisted
\* state as it was and triggers no collaborator call.
C10_NoRuleNoEffect ==
  (Handled /\ NoRule(last.pre, last.cmd)) =>
    /\ Post = last.pre
    /\ last.calls = {}
    /\ last.sent = {}
    /\ last.outcome \in {"ok", "invalid"}

\* C10 witness: a command without a rule was handled in a NewIssue* state
\* that holds accumulated fields.
C10_Witness ==
  /\ Handled
  /\ NoRule(last.pre, last.cmd)
  /\ last.pre.tag = "NewIssueSummaryProject"

IsTextIn(tags) == Handled /\ last.cmd.kind = "Text" /\ last.pre.tag \in tags

\* the text names an option of the set the tracker holds for the step
Matches(state, text) ==
  CASE state.tag = "NewIssueSummary" -> \E pr \in TrackerProjects : pr.name = text
    [] state.tag = "NewIssueSummaryProject" -> text \in StreamValues
    [] state.tag = "NewIssueSummaryProjectStream" -> text \in TypeValues
    [] OTHER -> FALSE

OptionSteps == {"NewIssueSummary", "NewIssueSummaryProject", "NewIssueSummaryProjectStream"}

\* the state one step further in the chain, holding the text as the new field
Advanced(state, text) ==
  CASE state.tag = "NewIssue" -> [tag |-> "NewIssueSummary", summary |-> text]
    [] state.tag = "NewIssueSummary" /\ (\E pr \in TrackerProjects : pr.name = text) ->
         [tag |-> "NewIssueSummaryProject", summary |-> state.summary,
          project |-> CHOOSE pr \in TrackerProjects : pr.name = text]
    [] state.tag = "NewIssueSummaryProject" ->
         [tag |-> "NewIssueSummaryProjectStream", summary |-> state.summary,
          project |-> state.project, stream |-> <<"f_stream", text>>]
    [] state.tag = "NewIssueSummaryProjectStream" ->
         [tag |-> "NewIssueSummaryProjectStreamType", summary |-> state.summary,
          project |-> state.project, stream |-> state.stream,
          issue_type |-> <<"f_type", text>>]
    [] state.tag = "NewIssueSummaryProjectStreamType" ->
         [tag |-> "NewIssueSummaryProjectStreamTypeDesc", summary |-> state.summary,
          project |-> state.project, stream |-> state.stream,
          issue_type |-> state.issue_type, desc |-> text]
    [] OTHER -> state

\* the prompt a step sends when it advances
PromptOf(tag) ==
  CASE tag = "NewIssue" -> "prompt_project"
    [] tag = "NewIssueSummary" -> "prompt_stream"
    [] tag = "NewIssueSummaryProject" -> "prompt_type"
    [] tag = "NewIssueSummaryProjectStream" -> "prompt_desc"
    [] OTHER -> "draft_preview"

\* C11 as claimed: NewIssue + Text(s) gives NewIssueSummary{s}; in the project,
\* stream and type steps a Text(v) naming an option of the tracker's set
\* advances to the next accumulator state holding v; no step is skipped.
C11_TextAdvancesOneStep ==
  /\ IsTextIn({"NewIssue"}) => Post = Advanced(last.pre, last.cmd.text)
  /\ (IsTextIn(OptionSteps) /\ Matches(last.pre, last.cmd.text))
       => Post = Advanced(last.pre, last.cmd.text)
  /\ IsTextIn(NewIssueTags)
       => Post \in {last.pre, Advanced(last.pre, last.cmd.text)}

\* C11 amended: a Text command advances the session by exactly one step, to
\* the next accumulator state holding the text, exactly when the step sends its
\* prompt, that is when the tracker requests the step makes are answered with
\* usable data and the text matches the options they returned; when a request
\* fails or its answer is unusable the state stays as it was.  No step is
\* skipped.
C11_TextAdvancesWhenPrompted ==
  IsTextIn(NewIssueTags \ {"NewIssueSummaryProjectStreamTypeDesc"}) =>
    /\ Post \in {last.pre, Advanced(last.pre, last.cmd.text)}
    /\ (PromptOf(last.pre.tag) \in last.sent) <=> (Post # last.pre)
    /\ (PromptOf(last.pre.tag) \in last.sent) => last.outcome = "ok"
    /\ (last.failed \/ last.outcome # "ok") => Post = last.pre
    /\ last.pre.tag = "NewIssue"
         => (Post = last.pre => (last.failed \/ last.outcome = "panic"))

\* C11 witness: the stream step advanced to the type step.
C11_Witness ==
  /\ IsTextIn({"NewIssueSummaryProject"})
  /\ Post.tag = "NewIssueSummaryProjectStream"
  /\ Post.stream[2] = last.cmd.text

\* C12: in the project, stream and type steps a Text(v) that names no option
\* of the tracker's set leaves the state unchanged and sends nothing.
C12_NoMatchNoEffect ==
  (IsTextIn(OptionSteps) /\ ~Matches(last.pre, last.cmd.text))
    => (Post = last.pre /\ last.sent = {})

\* C12 witness: in the stream step the tracker answered with its bundle and the
\* text was none of its values.
C12_Witness ==
  /\ IsTextIn({"NewIssueSummaryProject"})
  /\ ~Matches(last.pre, last.cmd.text)
  /\ last.outcome = "ok"
  /\ ~last.failed

\* C13: in every NewIssue* state a Cancel moves the user to Idle.
C13_CancelGoesIdle ==
  (Handled /\ last.pre.tag \in NewIssueTags /\ last.cmd.kind = "Cancel")
    => (Post = Idle /\ last.outcome = "ok" /\ "cancel" \in last.sent)

\* C13 witness: a Cancel was handled in the last state of the chain.
C13_Witness ==
  /\ Handled
  /\ last.pre.tag = "NewIssueSummaryProjectStreamTypeDesc"
  /\ last.cmd.kind = "Cancel"

IsSave ==
  /\ Handled
  /\ last.pre.tag = "NewIssueSummaryProjectStreamTypeDesc"
  /\ last.cmd.kind = "Save"

\* the dispatch made one create-issue request, carrying every field of the state
OneCompleteRequest ==
  /\ "create" \in last.calls
  /\ Cardinality(last.draft) = 1
  /\ \A d \in last.draft :
       /\ d.summary = last.pre.summary
       /\ d.description = last.pre.desc
       /\ d.project = last.pre.project.id
       /\ d.custom_fields =
            <<<<last.pre.stream[1], "Stream", last.pre.stream[2]>>,
              <<last.pre.issue_type[1], "Type", last.pre.issue_type[2]>>>>

\* no other (state, command) pair makes a create-issue request
OnlySaveCreates ==
  (Handled /\ ("create" \in last.calls \/ last.draft # {})) => IsSave

\* C14 as claimed: in NewIssueSummaryProjectStreamTypeDesc a Save emits exactly
\* one create-issue request carrying all accumulated fields and moves the user
\* to Idle; no other pair emits a create-issue request.
C14_SaveCreatesAndGoesIdle ==
  /\ IsSave => (OneCompleteRequest /\ Post = Idle)
  /\ OnlySaveCreates

\* C14 amended: the Save emits exactly one create-issue request carrying all
\* accumulated fields, and the user moves to Idle when the tracker answers it
\* with the created issue; when the request fails or its answer cannot be read
\* the state stays NewIssueSummaryProjectStreamTypeDesc.  No other pair emits a
\* create-issue request.
C14_SaveCreatesOnce ==
  /\ IsSave =>
       /\ OneCompleteRequest
       /\ ("created" \in last.sent) <=> (last.outcome = "ok")
       /\ Post = IF last.outcome = "ok" THEN Idle ELSE last.pre
  /\ OnlySaveCreates

\* C14 witness: a Save was handled and the issue was created.
C14_Witness == IsSave /\ "created" \in last.sent /\ Post = Idle

FieldOrder == <<"summary", "project", "stream", "issue_type", "desc">>

\* the number of fields a NewIssue* state holds
Rank(tag) ==
  CASE tag = "NewIssue" -> 0
    [] tag = "NewIssueSummary" -> 1
    [] tag = "NewIssueSummaryProject" -> 2
    [] tag = "NewIssueSummaryProjectStream" -> 3
    [] tag = "NewIssueSummaryProjectStreamType" -> 4
    [] OTHER -> 5

\* C15: while a user's record stays inside the NewIssue* chain, the fields are
\* held in the order summary, project, stream, issue type, description, a step
\* adds at most the next one, and every field already set keeps its value.
C15_FieldsAccumulate ==
  [][\A u \in Users :
       (store[u].tag \in NewIssueTags /\ store'[u].tag \in NewIssueTags) =>
         /\ Rank(store'[u].tag) \in {Rank(store[u].tag), Rank(store[u].tag) + 1}
         /\ DOMAIN store'[u] \ {"tag"}
              = {FieldOrder[i] : i \in 1..Rank(store'[u].tag)}
         /\ \A f \in DOMAIN store[u] \ {"tag"} :
              f \in DOMAIN store'[u] /\ store'[u][f] = store[u][f]]_vars

\* C15 witness: the description was added to a state holding the four fields
\* before it.
C15_Witness ==
  /\ IsTextIn({"NewIssueSummaryProjectStreamType"})
  /\ Post.tag = "NewIssueSummaryProjectStreamTypeDesc"
  /\ Post.summary # Post.desc

Rejected(kind) == last.outcome = "rejected" /\ last.cmd.kind = kind

\* C16: a callback whose payload fails to decode is normalised to a command
\* (Invalid) and handled; it never makes normalisation fail, so no dispatch is
\* aborted for undecodable callback data.
C16_BadPayloadIsHandled == ~Rejected("bad_callback_data")

\* C18: an update that is neither a message nor a callback query, or a message
\* that is not text, is rejected and ignored: no collaborator is called and no
\* session record, keyboard or credential changes.
C18_UnsupportedIgnored ==
  [][(last'.outcome = "rejected"
        /\ last'.cmd.kind \in {"other_update", "non_text_message"})
       => /\ store' = store
          /\ msgs' = msgs
          /\ yt_tokens' = yt_tokens
          /\ csrf_tokens' = csrf_tokens
          /\ inflight' = inflight
          /\ crashed' = crashed
          /\ last'.calls = {} /\ last'.sent = {}]_vars

\* C18 witness: a message that is not text was rejected while the user was in
\* the middle of the NewIssue chain.
C18_Witness ==
  /\ Rejected("non_text_message")
  /\ store[last.uid].tag = "NewIssueSummaryProject"

\* C19: get_state gives Idle when the user has no record and also when the
\* record is unreadable, and the dispatch of the event proceeds.
C19_GetDefaultsToIdle ==
  /\ \A u \in Users : store[u] \in {Absent, Corrupt} => get_state(u) = Idle
  /\ ~Rejected("unreadable_record")

\* C20: no input from the network (event payload, callback data, persisted
\* record, collaborator answer) makes the dispatcher panic.
C20_NoPanic == crashed = FALSE

\* C17: a callback on a message of the bot whose token is malformed or not
\* found (consumed or evicted) never makes the dispatcher panic, and when its
\* handling completes the inline keyboard of that message has been cleared.
C17_BadTokenClearsKeyboard ==
  (main_last.token \in {"malformed", "notfound"} /\ main_last.has_msg)
    => /\ main_last.outcome # "panic"
       /\ main_last.outcome = "ok" => (main_last.cleared /\ main_kb = {})

\* the uuids of the cache of main.rs
Cached == CachedUuids(CACHES)

\* thread t has returned from extract_params for the uuid n of a button
DecodedBy(t, n) == thr[t].pc = "idle" /\ thr[t].uuid = n /\ n \in 1..Len(tokens)

\* C21: a token of the opaque-handle codec is decoded successfully at most
\* once. A decode that finds the entry returns the payload the token was made
\* for; once a decode has returned it the entry is gone from the cache, so every
\* later decode is not found; a decode is not found only for a token that was
\* decoded before or whose entry a put evicted.
C21_DecodedAtMostOnce ==
  /\ \A n \in 1..Len(tokens) :
       /\ tokens[n].decodes <= 1
       /\ tokens[n].decodes = 1 => n \notin Cached
  /\ \A t \in Threads, n \in 1..Len(tokens) :
       DecodedBy(t, n)
         => /\ thr[t].found \in {{}, {tokens[n].p}}
            /\ thr[t].found # {} => tokens[n].decodes = 1
            /\ thr[t].found = {} => (tokens[n].decodes = 1 \/ tokens[n].evicted)

\* C21 witness: a token that was decoded and never evicted has been decoded a
\* second time, and was not found.
C21_Witness ==
  \E t \in Threads, n \in 1..Len(tokens) :
    /\ DecodedBy(t, n)
    /\ thr[t].found = {}
    /\ tokens[n].decodes = 1
    /\ ~tokens[n].evicted
    /\ tokens[n].p.t = "bn"

\* C22: the cache of main.rs never holds more than its capacity, a put into
\* a full cache evicts the least recently used entry (every evicted token is
\* older than every token still held), and the decode of an evicted token is not
\* found and is handled without ending the dispatcher.
C22_EvictionIsNotFatal ==
  /\ Len(CACHES) <= CacheCap
  /\ \A e \in evicted, c \in Cached : e < c
  /\ main_last.uuid \in evicted
       => /\ main_last.token = "notfound"
          /\ main_last.outcome = "ok"

\* two threads do not obtain the payload of the same token
OneObtains ==
  \A t1, t2 \in Threads :
    (t1 # t2 /\ thr[t1].uuid = thr[t2].uuid /\ thr[t1].uuid \in 1..Len(tokens))
      => (thr[t1].found = {} \/ thr[t2].found = {})

\* C23: at most one thread at a time is between CACHES.lock() and the drop of
\* the guard, that thread is the holder of the lock, and when two threads decode
\* the same token at most one of them obtains the payload.
C23_LockedPopIsAtomic ==
  /\ \A t1, t2 \in Threads : (thr[t1].pc # "idle" /\ thr[t2].pc # "idle") => t1 = t2
  /\ \A t \in Threads : thr[t].pc # "idle" <=> lock = t
  /\ OneObtains

\* C23 witness: while one thread held the lock inside extract_params, with the
\* entry found and not yet unlinked, nothing else ran; both threads have since
\* decoded the same token, one obtained the payload and the other did not.
C23_Witness ==
  \E t1, t2 \in Threads, n \in 1..Len(tokens) :
    /\ t1 # t2
    /\ DecodedBy(t1, n) /\ DecodedBy(t2, n)
    /\ thr[t1].found = {tokens[n].p}
    /\ thr[t2].found = {}

\* C24: a payload whose serialized form is longer than 64 bytes makes the
\* encoder return a failure value; the conversion does not panic.
C24_EncodeReportsSizeExceeded ==
  Len(CallbackParams_to_string(enc_item)) > MaxCallbackData => ~enc_button.panic

\* C25: the callback data of every button made, by either codec and for every
\* variant, is at most 64 bytes long.
C25_TokenAtMost64Bytes == enc_button.made => Len(enc_button.data) <= MaxCallbackData

\* C25 witness: the button of a vote made by the self-describing codec carries
\* exactly 64 bytes.
C25_Witness ==
  /\ enc_button.made
  /\ enc_item.t = "vi"
  /\ enc_button.data = CallbackParams_to_string(enc_item)
  /\ Len(enc_button.data) = MaxCallbackData

DecodedOwnToken ==
  /\ enc_button.made
  /\ enc_button.data = CallbackParams_to_string(enc_item)
  /\ dec_data = {enc_button.data}
  /\ dec_count > 0

\* C27: decoding the data of a button made by the self-describing codec gives
\* the command that carries exactly the payload encoded, however many times it is
\* decoded.
C27_RoundTrip ==
  DecodedOwnToken
    => /\ dec_result.ok
       /\ dec_result.cmd = BotCommand_from_callback(enc_item, 1, TRUE)

\* C27 witness: a BacklogPrev payload with the extreme i32 values has been
\* encoded and its token decoded twice.
C27_Witness ==
  /\ DecodedOwnToken
  /\ enc_item = CallbackParams_BacklogPrev([top |-> I32Max, skip |-> I32Min])
  /\ dec_count >= 2

\* C28: every BacklogNext or BacklogPrev payload accepted from a callback has
\* top > 0 and a skip that is a non-negative multiple of top (stated for the
\* callbacks decoded while the encoder has made no button, so that the payload is
\* not one the encoder was handed).
C28_ParamsWellFormed ==
  (dec_result.ok /\ dec_result.cmd.kind \in {"BacklogNext", "BacklogPrev"} /\ ~enc_button.made)
    => /\ dec_result.cmd.p.top > 0
       /\ dec_result.cmd.p.skip >= 0
       /\ dec_result.cmd.p.skip % dec_result.cmd.p.top = 0

\* C29: BacklogParams::new(top).prev() is None for every top > 0.
C29_FirstPageHasNoPrev ==
  (bp_call.fn = "new.prev" /\ bp_params.top > 0) => bp_call.result = Returned({})

\* C29 witness: new(top).prev() has been called with the largest i32 as top.
C29_Witness ==
  /\ bp_call.fn = "new.prev"
  /\ bp_params.top = I32Max
  /\ bp_call.result = Returned({})

\* C30: for every BacklogParams value with skip >= 0, over the whole range of
\* top and skip, params.next().prev() returns Some(params).
C30_NextPrevIsIdentity ==
  (bp_call.fn = "next.prev" /\ bp_params.skip >= 0)
    => bp_call.result = Returned({bp_params})

\* the text of a message has been normalised
Normalised == dec_count = 0 /\ dec_data # {} /\ dec_result # NoResult

\* the keyword table: the texts that are commands and the command each gives
KeywordTable ==
  {<<"/start", "Start">>, <<"/backlog", "Backlog">>, <<"/login", "Login">>,
   <<"/new_issue", "NewIssue">>, <<"/save", "Save">>, <<"/cancel", "Cancel">>,
   <<"/stop", "Stop">>}

\* C31: the command a text message is normalised to is the one the keyword
\* table names for exactly that text, "/backlog" giving the page of 5 from offset
\* 0, and any text that is not in the table gives Text carrying the text as it
\* was sent.
C31_KeywordTable ==
  Normalised =>
    LET data == CHOOSE d \in dec_data : TRUE
    IN /\ dec_result.ok
       /\ \A row \in KeywordTable : data = row[1] => dec_result.cmd.kind = row[2]
       /\ data = "/backlog" => dec_result.cmd.p = [top |-> 5, skip |-> 0]
       /\ data \notin {row[1] : row \in KeywordTable}
            => dec_result.cmd = [kind |-> "Text", text |-> data]

\* C31 witness: a text that continues a keyword has been normalised to Text.
C31_Witness ==
  /\ Normalised
  /\ dec_data = {"/start@bot"}
  /\ dec_result.cmd = [kind |-> "Text", text |-> "/start@bot"]

\* the commands a user whose messages carry the keyboards m can send: any text,
\* and any button of a keyboard
UserCommands(m) ==
  {BotCommand_from_message(data) : data \in Keywords \cup Texts}
    \cup UNION {{BotCommand_from_callback(b, mid, TRUE) : b \in m[mid]} : mid \in DOMAIN m}

\* where one command of the user takes the session x = [state, m, cred], over
\* every answer of the collaborators; a dispatch that panics is left out
UserSteps(x) ==
  UNION {{LET r == handle_command(x.state, cmd, x.cred, env)
          IN [state |-> IF r.outcome = "ok" THEN r.new_state ELSE x.state,
              m |-> ApplyKb(x.m, cmd, r.h.kbop, env.spawn),
              cred |-> x.cred /\ ~r.h.expired] :
            env \in {e \in Envs(x.state, cmd) :
                       handle_command(x.state, cmd, x.cred, e).outcome # "panic"}} :
         cmd \in UserCommands(x.m)}

RECURSIVE CanReturn(_)
\* some session of S can be brought to Idle by commands of its user
CanReturn(S) ==
  IF \E x \in S : x.state = Idle
    THEN TRUE
    ELSE LET T == S \cup UNION {UserSteps(x) : x \in S}
         IN IF T = S THEN FALSE ELSE CanReturn(T)

\* C32: whatever state a user's readable record holds and whatever keyboards
\* the user's messages carry, some finite sequence of the user's own commands
\* (texts, and buttons of those keyboards) brings the user's state to Idle.
C32_CanReturnToIdle ==
  \A u \in Senders :
    (~crashed /\ inflight = {} /\ get_state(u) # RedisErr)
      => CanReturn({[state |-> get_state(u), m |-> msgs[u], cred |-> u \in yt_tokens]})

\* C33: the dispatch of an event of user u leaves the record of every other
\* user as it was; a record changes only in the step that completes a dispatch
\* of its own user with a state to store (or when something other than the bot
\* overwrites it); on_auth changes no record.
C33_Frame ==
  [][/\ \A c \in inflight :
          DispatchFinish(c) => \A u \in Users \ {c.uid} : store'[u] = store[u]
     /\ \A u \in Users :
          store'[u] # store[u]
            => \/ store'[u] = Corrupt
               \/ /\ \E c \in inflight : c.uid = u /\ c \notin inflight'
                  /\ last'.uid = u
                  /\ last'.outcome = "ok"
     /\ (\E tok \in 0..MaxCsrf, me_ok \in BOOLEAN : OnAuth(tok, me_ok))
          => store' = store]_vars

\* C33 witness: after on_auth stored a credential, a dispatch of u1 wrote u1's
\* record, and the record of u2 is as it was at the start.
C33_Witness ==
  /\ Handled
  /\ last.outcome = "ok"
  /\ last.uid = "u1"
  /\ last.cred
  /\ store["u1"] \notin {Absent, last.pre}
  /\ store["u2"] = Absent

\* C34: while the handling of an event of one user is waiting for a
\* collaborator's answer, the handling of an event of any other user can start.
C34_OtherUsersNotBlocked ==
  \A c \in inflight :
    \A u \in Users \ {c.uid} : ENABLED DispatchMessage(u, "/start")

\* C35: a credential is never stored for a user while a dispatch of that user
\* is between its start and its end; and a backlog action (the first page, a
\* page turn, a vote) whose handler runs while the table holds the user's
\* credential finds it: it calls the tracker and does not tell the user to log in.
C35_AuthWriteExclusive ==
  [][/\ \A u \in yt_tokens' \ yt_tokens :
          \A c \in inflight \cup inflight' : c.uid # u
     /\ \A c \in inflight :
          (/\ DispatchFinish(c)
           /\ c.uid \in yt_tokens
           /\ UsesFetch(c.state, c.cmd)
           /\ last'.outcome # "panic")
            => /\ last'.cred
               /\ last'.calls \cap {"fetch", "vote"} # {}
               /\ ~IsVote(c.state, c.cmd) => "login_hint" \notin last'.sent]_vars

\* C35 witness: the first backlog page was shown to a user whose credential
\* on_auth had stored.
C35_Witness ==
  /\ Handled
  /\ last.pre = Idle
  /\ last.cmd.kind = "Backlog"
  /\ last.cred
  /\ "page" \in last.sent
  /\ last.uid \in yt_tokens

\* the user CSRF token tok resolves to, as a set
Resolved(tok) == IF tok # 0 /\ csrf_tokens[tok] # "none" THEN {csrf_tokens[tok]} ELSE {}

\* C36: the CSRF table holds at most one token per user, so that its size is
\* bounded by the number of users; an OAuth callback whose state resolves to a
\* user leaves that user's credential stored; one whose state does not resolve
\* adds and changes no credential.
C36_AuthStoresResolved ==
  [][/\ \A u \in Users : Cardinality({t \in 1..MaxCsrf : csrf_tokens'[t] = u}) <= 1
     /\ \A tok \in 0..MaxCsrf, me_ok \in BOOLEAN :
          OnAuth(tok, me_ok)
            => IF Resolved(tok) # {}
                 THEN Resolved(tok) \subseteq yt_tokens'
                 ELSE yt_tokens' = yt_tokens]_vars

\* C37: a request to the tracker for issues or for a vote is made only by a
\* handler that found the user's credential in the table, where it is only
\* while it is stored and its time-to-live has not run out; a backlog action of
\* a user without one is answered with the hint to log in, makes no such
\* request, and does not take the user into InBacklog.
C37_NoCredentialNoBacklog ==
  Handled =>
    /\ last.calls \cap {"fetch", "vote"} # {} => last.cred
    /\ (UsesFetch(last.pre, last.cmd) /\ ~last.cred /\ last.outcome # "panic")
         => /\ "login_hint" \in last.sent
            /\ last.calls \cap {"fetch", "vote"} = {}
            /\ last.page = {}
            /\ Post.tag = "InBacklog" => last.pre.tag = "InBacklog"

\* C37 witness: a page turn by a user whose credential has run out since the
\* page was shown is answered with the hint to log in.
C37_Witness ==
  /\ Handled
  /\ last.pre.tag = "InBacklog"
  /\ last.cmd.kind = "BacklogNext"
  /\ ~last.cred
  /\ "login_hint" \in last.sent

\* C38: when a dispatch that rendered the page at p (the first page, a page
\* turn, the page shown again after a vote) has completed, the persisted state
\* of its user is InBacklog{p.top, p.skip}.
C38_StateMatchesPage ==
  (Handled /\ last.page # {})
    => \A p \in last.page : Post = InBacklog(p.top, p.skip)

\* backlog_keyboard has returned the keyboard of a page that some request can
\* name: top above 0, skip not below 0, and a next page within the i32 range
KeyboardMade ==
  /\ bp_call.fn = "keyboard"
  /\ ~bp_call.result.panic
  /\ bp_params.top > 0
  /\ bp_params.skip >= 0
  /\ ~add_overflows(bp_params.skip, bp_params.top)

\* C39: every keyboard backlog_keyboard returns holds the stop button, the
\* keyboard of an empty page at skip = 0 and at skip = top included.
C39_KeyboardHasStop ==
  KeyboardMade
    => \A r \in bp_call.result.value : CallbackParams_BacklogStop \in r.kb

\* C40: the keyboard holds a prev button exactly when skip - top >= 0, and that
\* button carries the page before (top, skip - top); it holds a next button
\* exactly when the page has an issue, and that button carries the page after
\* (top, skip + top).
C40_PrevAndNextButtons ==
  KeyboardMade
    => \A r \in bp_call.result.value :
         /\ {b \in r.kb : b.t = "bp"}
              = IF bp_params.skip - bp_params.top >= 0
                  THEN {CallbackParams_BacklogPrev(
                          [top |-> bp_params.top, skip |-> bp_params.skip - bp_params.top])}
                  ELSE {}
         /\ {b \in r.kb : b.t = "bn"}
              = IF r.issues # {}
                  THEN {CallbackParams_BacklogNext(
                          [top |-> bp_params.top, skip |-> bp_params.skip + bp_params.top])}
                  ELSE {}

====
